---- MODULE Spec2Model ----
(***************************************************************************)
(* A model of zont_api (src/src/zont_api/zont_api.py): the delta-time      *)
(* array decoder ZontAPI.convert_delta_time_array, the PII redactor        *)
(* ZontAPI.filter_pii and the device listing ZontAPI.get_devices.          *)
(*                                                                         *)
(* Python values are records of one shape, [k, n, s, l, d]:                *)
(*   k  the type ("int", "bool", "str", "NoneType", "tuple", "list",       *)
(*      "dict", "datetime"),                                               *)
(*   n  the value of an int, a bool (0, 1) or a datetime (its timestamp),  *)
(*   s  the characters of a str (a str that is never parsed is one piece), *)
(*   l  the elements of a list or tuple,                                   *)
(*   d  the items of a dict, in insertion order, each [key, val].          *)
(***************************************************************************)
EXTENDS Integers, Sequences, FiniteSets, TLC

VARIABLES
    delta_time_array,   \* convert_delta_time_array: the encoded series passed
    sort,               \* convert_delta_time_array: the sort argument
    reverse,            \* convert_delta_time_array: the reverse argument
    filter_duplicates,  \* the filter_duplicates keyword of the call, or "unset"
    dta_result,         \* convert_delta_time_array: how the call ended
    dta_after,          \* the object passed as delta_time_array, as the calls left it
    dta_again,          \* how the same call, made once more, ended
    pii_data,           \* filter_pii: the tree passed, as it is before the call
    pii_result,         \* filter_pii: how the call on pii_data ended
    pii_again,          \* filter_pii: how the call on the value it returned ended
    response,           \* what requests.post(...).json() does
    devices_result,     \* get_devices: how the call ended
    arg_token,          \* ZontAPI(token=..., client=...): the token argument
    arg_client,         \* ZontAPI(token=..., client=...): the client argument
    environ,            \* os.environ: the value of each variable, None when unset
    files,              \* the file system: the file at each path, if there is one
    zapi,               \* ZontAPI(...): how the construction ended
    route,              \* api_request: the api_route argument
    api_result,         \* api_request: how the call ended
    load_device_id,     \* load_data: the device_id argument
    load_result,        \* load_data: how the call ended
    zdev,               \* a ZontDevice: its id, name, data, last_seen, last_seen_relative
    zdev_api,           \* whether the device has an API object (self.api)
    update_result,      \* update_info: how the latest call ended
    updates,            \* the number of update_info calls made
    sensor_wanted,      \* get_sensor_name: the sensor_id argument
    sensor_result,      \* get_sensor_name: how the call ended
    pii_store,          \* the objects __pii_dicts__ and __pii_lists__ hold
    pii_held,           \* the tree the caller of filter_pii holds
    pii_returned,       \* filter_pii: how the latest call ended
    redacts,            \* the number of filter_pii calls made
    alias_calls,        \* those made on a value that holds an object of the tables
    from_datetime,      \* the exporter: --from, in seconds
    to_datetime,        \* the exporter: --to, in seconds
    arg_period,         \* the exporter: --period, or "unset"
    dt_to,              \* main: dt_to
    dt_delta,           \* main: dt_delta
    dt_ifrom,           \* main: dt_ifrom
    dt_ito,             \* main: dt_ito
    exported,           \* the calls of export_data made: <<dt_from, dt_to>> of each
    pc                  \* main: the statement it is at

dta_vars ==
    <<delta_time_array, sort, reverse, filter_duplicates, dta_result, dta_after,
      dta_again>>

pii_vars == <<pii_data, pii_result, pii_again>>

dev_vars == <<response, devices_result>>

init_vars == <<arg_token, arg_client, environ, files, zapi>>

req_vars == <<route, api_result>>

load_vars == <<load_device_id, load_result>>

zdev_vars == <<zdev, zdev_api, update_result, updates>>

sensor_vars == <<sensor_wanted, sensor_result>>

alias_vars == <<pii_store, pii_held, pii_returned, redacts, alias_calls>>

export_vars ==
    <<from_datetime, to_datetime, arg_period, dt_to, dt_delta, dt_ifrom, dt_ito,
      exported, pc>>

vars ==
    <<dta_vars, pii_vars, dev_vars, init_vars, req_vars, load_vars, zdev_vars,
      sensor_vars, alias_vars, export_vars>>

----------------------------------------------------------------------------
(* Python values *)

PyInt(n) == [k |-> "int", n |-> n, s |-> <<>>, l |-> <<>>, d |-> <<>>]

PyStr(s) == [k |-> "str", n |-> 0, s |-> s, l |-> <<>>, d |-> <<>>]

PyBool(b) == [k |-> "bool", n |-> IF b THEN 1 ELSE 0, s |-> <<>>, l |-> <<>>, d |-> <<>>]

PyNone == [k |-> "NoneType", n |-> 0, s |-> <<>>, l |-> <<>>, d |-> <<>>]

PyList(l) == [k |-> "list", n |-> 0, s |-> <<>>, l |-> l, d |-> <<>>]

PyTuple(l) == [k |-> "tuple", n |-> 0, s |-> <<>>, l |-> l, d |-> <<>>]

PyDict(d) == [k |-> "dict", n |-> 0, s |-> <<>>, l |-> <<>>, d |-> d]

(* How a call ended: st is "ok" or the name of the exception raised, msg   *)
(* the exception's message, val the value returned.  NotCalled is the      *)
(* state before the call.                                                  *)
Returned(v) == [st |-> "ok", msg |-> "", val |-> v]

Raised(exc, msg) == [st |-> exc, msg |-> msg, val |-> PyNone]

NotCalled == [st |-> "none", msg |-> "", val |-> PyNone]

----------------------------------------------------------------------------
(* int(x), as convert_delta_time_array uses it on element[0] *)

DecimalDigits == <<"0", "1", "2", "3", "4", "5", "6", "7", "8", "9">>

IsDigit(c) == \E i \in DOMAIN DecimalDigits : DecimalDigits[i] = c

DigitValue(c) == (CHOOSE i \in DOMAIN DecimalDigits : DecimalDigits[i] = c) - 1

RECURSIVE DigitsValue(_, _)
DigitsValue(chars, acc) ==
    IF chars = <<>> THEN acc
    ELSE DigitsValue(Tail(chars), 10 * acc + DigitValue(Head(chars)))

\* The literal after its sign: at least one digit and digits only.
IsDigitString(chars) ==
    /\ chars # <<>>
    /\ \A i \in DOMAIN chars : IsDigit(chars[i])

\* int(str): an optional sign, then decimal digits; anything else is a
\* ValueError "invalid literal for int() with base 10".
StrToInt(chars) ==
    LET signed == chars # <<>> /\ Head(chars) \in {"+", "-"}
        body == IF signed THEN Tail(chars) ELSE chars
    IN  IF ~IsDigitString(body)
        THEN Raised("ValueError", "invalid literal for int() with base 10")
        ELSE IF signed /\ Head(chars) = "-"
             THEN Returned(PyInt(0 - DigitsValue(body, 0)))
             ELSE Returned(PyInt(DigitsValue(body, 0)))

\* int(x): an int is itself, a str is parsed, None and containers are a
\* TypeError.
PyIntOf(x) ==
    CASE x.k = "int" -> Returned(x)
      [] x.k = "str" -> StrToInt(x.s)
      [] OTHER -> Raised("TypeError", "int() argument must be a string, a bytes-like object or a real number")

----------------------------------------------------------------------------
(* sorted(result, key=lambda t: t[0], reverse=reverse): a stable sort *)

SortKey(t) == t.l[1].n

\* x goes before the elements of its own key: ties end in reverse order.
StableInsert_before_ties(acc, x, rev) ==
    LET stays(y) == IF rev THEN SortKey(y) > SortKey(x)
                           ELSE SortKey(y) < SortKey(x)
        pos == CHOOSE p \in 0..Len(acc) :
                   /\ \A i \in 1..p : stays(acc[i])
                   /\ p < Len(acc) => ~stays(acc[p + 1])
    IN  SubSeq(acc, 1, pos) \o <<x>> \o SubSeq(acc, pos + 1, Len(acc))

\* x goes behind every element that does not sort after it, which keeps
\* elements of equal key in their order of arrival, in both directions.
StableInsert(acc, x, rev) ==
    LET stays(y) == IF rev THEN SortKey(y) >= SortKey(x)
                           ELSE SortKey(y) <= SortKey(x)
        pos == CHOOSE p \in 0..Len(acc) :
                   /\ \A i \in 1..p : stays(acc[i])
                   /\ p < Len(acc) => ~stays(acc[p + 1])
    IN  SubSeq(acc, 1, pos) \o <<x>> \o SubSeq(acc, pos + 1, Len(acc))

RECURSIVE SortedFrom(_, _, _)
SortedFrom(items, acc, rev) ==
    IF items = <<>> THEN acc
    ELSE SortedFrom(Tail(items), StableInsert(acc, Head(items), rev), rev)

\* sorted() without its reverse argument
sorted_ascending(items, rev) == SortedFrom(items, <<>>, FALSE)

sorted(items, rev) == SortedFrom(items, <<>>, rev)

----------------------------------------------------------------------------
(* ZontAPI.convert_delta_time_array *)

abs(x) == IF x < 0 THEN 0 - x ELSE x

\* The branches on timestamp_or_delta: <<latest_stamp, curr_stamp>> after an
\* absolute timestamp, after a delta, and after a zero.
next_stamps_keeps_latest(timestamp_or_delta, latest_stamp, curr_stamp) ==
    IF timestamp_or_delta > 0
    THEN <<timestamp_or_delta, timestamp_or_delta>>
    ELSE IF timestamp_or_delta < 0
    THEN <<latest_stamp, latest_stamp + abs(timestamp_or_delta)>>
    ELSE <<latest_stamp, curr_stamp>>

next_stamps_signed_delta(timestamp_or_delta, latest_stamp, curr_stamp) ==
    IF timestamp_or_delta > 0
    THEN <<timestamp_or_delta, timestamp_or_delta>>
    ELSE IF timestamp_or_delta < 0
    THEN <<latest_stamp, curr_stamp + timestamp_or_delta>>
    ELSE <<latest_stamp, curr_stamp>>

next_stamps(timestamp_or_delta, latest_stamp, curr_stamp) ==
    IF timestamp_or_delta > 0
    THEN <<timestamp_or_delta, timestamp_or_delta>>
    ELSE IF timestamp_or_delta < 0
    THEN <<latest_stamp, curr_stamp + abs(timestamp_or_delta)>>
    ELSE <<latest_stamp, curr_stamp>>

\* The continue of the zero branch: no point is appended for a zero.
is_skipped_unless_anchor(timestamp_or_delta) == ~(timestamp_or_delta > 0)

is_skipped_never(timestamp_or_delta) == FALSE

is_skipped(timestamp_or_delta) ==
    ~(timestamp_or_delta > 0) /\ ~(timestamp_or_delta < 0)

\* [curr_stamp] + element[1:]
decoded_point_keeps_lead(curr_stamp, element) ==
    PyList(<<PyInt(curr_stamp)>> \o element.l)

decoded_point(curr_stamp, element) ==
    PyList(<<PyInt(curr_stamp)>> \o Tail(element.l))

\* The for loop over delta_time_array, at element i, with the locals result,
\* latest_stamp and curr_stamp.
RECURSIVE dta_loop(_, _, _, _, _)
dta_loop(elements, i, result, latest_stamp, curr_stamp) ==
    IF i > Len(elements) THEN Returned(PyList(result))
    ELSE LET element == elements[i] IN
      IF element.k # "list"
      THEN Raised("ValueError", "element: list expected but found " \o element.k)
      ELSE IF element.l = <<>>
      THEN Raised("IndexError", "list index out of range")
      ELSE LET conv == PyIntOf(element.l[1]) IN
        IF conv.st # "ok" THEN conv
        ELSE LET timestamp_or_delta == conv.val.n
                 stamps == next_stamps(timestamp_or_delta, latest_stamp, curr_stamp)
             IN  IF is_skipped(timestamp_or_delta)
                 THEN dta_loop(elements, i + 1, result, stamps[1], stamps[2])
                 ELSE dta_loop(elements, i + 1,
                               Append(result, decoded_point(stamps[2], element)),
                               stamps[1], stamps[2])

convert_delta_time_array(dta, srt, rev) ==
    IF dta.k # "list"
    THEN Raised("ValueError", "parent: list expected but found " \o dta.k)
    ELSE LET decoded == dta_loop(dta.l, 1, <<>>, 0, 0) IN
      IF decoded.st # "ok" THEN decoded
      ELSE IF srt THEN Returned(PyList(sorted(decoded.val.l, rev)))
      ELSE decoded

\* The object passed as delta_time_array after the call: no statement of the
\* function assigns to it or to one of its elements (element[0] and
\* element[1:] read, [curr_stamp] + ... and sorted() build new lists).
delta_time_array_popped(dta) ==
    IF dta.k # "list" THEN dta
    ELSE PyList([i \in DOMAIN dta.l |->
                    IF dta.l[i].k = "list" /\ dta.l[i].l # <<>>
                    THEN PyList(Tail(dta.l[i].l))
                    ELSE dta.l[i]])

delta_time_array_left(dta) == dta

\* The call as its callers make it: the signature is (delta_time_array,
\* sort=True, reverse=False), so a filter_duplicates keyword, whatever its
\* value, is a TypeError before the body runs.
call_convert_delta_time_array(dta, srt, rev, fd) ==
    IF fd # "unset"
    THEN Raised("TypeError", "convert_delta_time_array() got an unexpected keyword argument 'filter_duplicates'")
    ELSE convert_delta_time_array(dta, srt, rev)

----------------------------------------------------------------------------
(* Dicts: items in insertion order *)

Item(key, val) == [key |-> key, val |-> val]

DictKeys(data) == {data.d[i].key : i \in DOMAIN data.d}

HasKey(data, key) == key \in DictKeys(data)

\* data[key], for a key that is present
GetItem(data, key) ==
    data.d[CHOOSE i \in DOMAIN data.d : data.d[i].key = key].val

\* data[k] = val during the iteration: item i keeps its place
SetItemAt(data, i, val) ==
    PyDict([data.d EXCEPT ![i] = Item(data.d[i].key, val)])

----------------------------------------------------------------------------
(* ZontAPI.__pii_keys__, __pii_dicts__, __pii_lists__ *)

MaskToken == PyStr(<<"*", "*", "*">>)

pii_keys ==
    {"ip", "login", "netname", "operator", "owner_username", "pass", "password",
     "phone", "serial", "usbpassword", "user_id", "username"}

pii_dicts_keys == {"sim_id"}

pii_dicts_unmasked(k) ==
    PyDict(<<Item("sim_id", MaskToken), Item("operator", PyStr(<<"n", "a">>))>>)

\* __pii_dicts__.get(k), for k in __pii_dicts__
pii_dicts(k) ==
    PyDict(<<Item("sim_id",
                  PyDict(<<Item("operator", MaskToken), Item("id", MaskToken)>>))>>)

pii_lists_keys == {"loc"}

\* __pii_lists__.get(k), for k in __pii_lists__
pii_lists(k) == PyDict(<<Item("loc", PyList(<<>>))>>)

----------------------------------------------------------------------------
(* ZontAPI.filter_pii *)

(* How a call of filter_pii ended: st, msg and val as above, and data, the *)
(* argument object as the call left it (the function works in place).      *)
PiiReturned(v, data) == [st |-> "ok", msg |-> "", val |-> v, data |-> data]

PiiRaised(exc, msg, data) == [st |-> exc, msg |-> msg, val |-> PyNone, data |-> data]

PiiNotCalled == [st |-> "none", msg |-> "", val |-> PyNone, data |-> PyNone]

\* The test at the top: anything but a dict or a list is returned as it is.
is_container(data) == data.k = "dict" \/ data.k = "list"

\* The else branch: the value stored under key k when v is no dict and no list.
masked_scalar(k, v) == IF k \in pii_keys THEN MaskToken ELSE v

\* The value returned when item k of data short-circuits.
short_circuit(data, i, substitute) == substitute

RECURSIVE filter_pii(_)
RECURSIVE filter_pii_items(_, _)
RECURSIVE filter_pii_list(_, _, _, _)

\* [ZontAPI.filter_pii(i) for i in v], at element i: returned holds the values
\* returned so far, in_place the elements of v as the calls left them.
filter_pii_list(v, i, returned, in_place) ==
    IF i > Len(v) THEN PiiReturned(PyList(returned), PyList(in_place))
    ELSE LET r == filter_pii(v[i]) IN
      IF r.st = "ok"
      THEN filter_pii_list(v, i + 1, Append(returned, r.val), Append(in_place, r.data))
      ELSE PiiRaised(r.st, r.msg,
                     PyList(in_place \o <<r.data>> \o SubSeq(v, i + 1, Len(v))))

\* for k, v in data.items(), at item i
filter_pii_items(data, i) ==
    IF i > Len(data.d) THEN PiiReturned(data, data)
    ELSE LET k == data.d[i].key
             v == data.d[i].val
         IN
      IF v.k = "dict"
      THEN IF k \in pii_dicts_keys
           THEN PiiReturned(short_circuit(data, i, pii_dicts(k)), data)
           ELSE LET r == filter_pii(v) IN
                IF r.st = "ok"
                THEN filter_pii_items(SetItemAt(data, i, r.val), i + 1)
                ELSE PiiRaised(r.st, r.msg, SetItemAt(data, i, r.data))
      ELSE IF v.k = "list"
      THEN IF k \in pii_lists_keys
           THEN PiiReturned(short_circuit(data, i, pii_lists(k)), data)
           ELSE LET r == filter_pii_list(v.l, 1, <<>>, <<>>) IN
                IF r.st = "ok"
                THEN filter_pii_items(SetItemAt(data, i, r.val), i + 1)
                ELSE PiiRaised(r.st, r.msg, SetItemAt(data, i, r.data))
      ELSE filter_pii_items(SetItemAt(data, i, masked_scalar(k, v)), i + 1)

filter_pii(data) ==
    IF ~is_container(data) THEN PiiReturned(data, data)
    ELSE IF data.k = "list"
    THEN PiiRaised("AttributeError", "'list' object has no attribute 'items'", data)
    ELSE filter_pii_items(data, 1)

----------------------------------------------------------------------------
(* ZontAPI.filter_pii on objects that are shared: the values of             *)
(* __pii_dicts__ and __pii_lists__, which filter_pii returns and stores by  *)
(* reference, so that a later call reaches the object of the table itself   *)

\* A reference to the object named o
Ref(o) == [k |-> "ref", n |-> 0, s |-> o, l |-> <<>>, d |-> <<>>]

\* __pii_dicts__.get(k) or __pii_lists__.get(k)
pii_table(k) == IF k \in pii_dicts_keys THEN pii_dicts(k) ELSE pii_lists(k)

\* The objects of the tables: the value under each key, named <<k>>, and
\* the dicts that value holds, named <<k, key>>
ObjectNames ==
    {<<k>> : k \in pii_dicts_keys \cup pii_lists_keys}
    \cup UNION {{<<k, pii_table(k).d[i].key>> :
                    i \in {j \in DOMAIN pii_table(k).d : pii_table(k).d[j].val.k = "dict"}} :
                k \in pii_dicts_keys \cup pii_lists_keys}

\* The object named o, the dicts it holds replaced by references to them
ObjectAt(o) ==
    LET data == IF Len(o) = 1 THEN pii_table(o[1]) ELSE GetItem(pii_table(o[1]), o[2]) IN
    PyDict([i \in DOMAIN data.d |->
                Item(data.d[i].key,
                     IF data.d[i].val.k = "dict"
                     THEN Ref(o \o <<data.d[i].key>>) ELSE data.d[i].val)])

\* The objects as the class body makes them
InitStore == [o \in ObjectNames |-> ObjectAt(o)]

RECURSIVE Contents(_, _)
\* The value v, each reference in it replaced by the contents of its object
Contents(store, v) ==
    CASE v.k = "ref" -> Contents(store, store[v.s])
      [] v.k = "dict" ->
            PyDict([i \in DOMAIN v.d |-> Item(v.d[i].key, Contents(store, v.d[i].val))])
      [] v.k = "list" -> PyList([i \in DOMAIN v.l |-> Contents(store, v.l[i])])
      [] OTHER -> v

(* How a call ended: as for filter_pii, and store the objects of the tables *)
(* as the call left them.                                                   *)
StoreReturned(v, data, store) ==
    [st |-> "ok", msg |-> "", val |-> v, data |-> data, store |-> store]

StoreRaised(exc, msg, data, store) ==
    [st |-> exc, msg |-> msg, val |-> PyNone, data |-> data, store |-> store]

StoreNotCalled == [st |-> "none", msg |-> "", val |-> PyNone, data |-> PyNone, store |-> <<>>]

\* isinstance(v, dict)
is_dict(v) == v.k = "dict" \/ v.k = "ref"

\* The dict that data is
DictOf(store, data) == IF data.k = "ref" THEN store[data.s] ELSE data

\* data[k] = val at item i: in the object, when data is one of the tables'
Assign(store, data, i, val) ==
    IF data.k = "ref"
    THEN [data |-> data,
          store |-> [store EXCEPT ![data.s] = SetItemAt(store[data.s], i, val)]]
    ELSE [data |-> SetItemAt(data, i, val), store |-> store]

RECURSIVE shared_filter_pii(_, _)
RECURSIVE shared_filter_pii_items(_, _, _)
RECURSIVE shared_filter_pii_list(_, _, _, _, _)

\* [ZontAPI.filter_pii(i) for i in v], at element i
shared_filter_pii_list(store, v, i, returned, in_place) ==
    IF i > Len(v) THEN StoreReturned(PyList(returned), PyList(in_place), store)
    ELSE LET r == shared_filter_pii(store, v[i]) IN
      IF r.st = "ok"
      THEN shared_filter_pii_list(r.store, v, i + 1, Append(returned, r.val),
                                  Append(in_place, r.data))
      ELSE StoreRaised(r.st, r.msg,
                       PyList(in_place \o <<r.data>> \o SubSeq(v, i + 1, Len(v))),
                       r.store)

\* for k, v in data.items(), at item i
shared_filter_pii_items(store, data, i) ==
    IF i > Len(DictOf(store, data).d) THEN StoreReturned(data, data, store)
    ELSE LET k == DictOf(store, data).d[i].key
             v == DictOf(store, data).d[i].val
         IN
      IF is_dict(v)
      THEN IF k \in pii_dicts_keys
           THEN StoreReturned(Ref(<<k>>), data, store)
           ELSE LET r == shared_filter_pii(store, v) IN
                IF r.st = "ok"
                THEN LET a == Assign(r.store, data, i, r.val) IN
                     shared_filter_pii_items(a.store, a.data, i + 1)
                ELSE LET a == Assign(r.store, data, i, r.data) IN
                     StoreRaised(r.st, r.msg, a.data, a.store)
      ELSE IF v.k = "list"
      THEN IF k \in pii_lists_keys
           THEN StoreReturned(Ref(<<k>>), data, store)
           ELSE LET r == shared_filter_pii_list(store, v.l, 1, <<>>, <<>>) IN
                IF r.st = "ok"
                THEN LET a == Assign(r.store, data, i, r.val) IN
                     shared_filter_pii_items(a.store, a.data, i + 1)
                ELSE LET a == Assign(r.store, data, i, r.data) IN
                     StoreRaised(r.st, r.msg, a.data, a.store)
      ELSE LET a == Assign(store, data, i, masked_scalar(k, v)) IN
           shared_filter_pii_items(a.store, a.data, i + 1)

shared_filter_pii(store, data) ==
    IF ~(is_dict(data) \/ data.k = "list") THEN StoreReturned(data, data, store)
    ELSE IF data.k = "list"
    THEN StoreRaised("AttributeError", "'list' object has no attribute 'items'", data, store)
    ELSE shared_filter_pii_items(store, data, 1)

----------------------------------------------------------------------------
(* ZontAPIException, ZontAPI.check_for_errors, ZontAPI.api_request *)

(* How a call of the API layer ended: st is "ok" or the exception's name,  *)
(* msg and code the message and status_code of a ZontAPIException, val the *)
(* value returned.                                                         *)
ApiReturned(v) == [st |-> "ok", msg |-> PyNone, code |-> 0, val |-> v]

ApiRaised(exc, msg, code) == [st |-> exc, msg |-> msg, code |-> code, val |-> PyNone]

\* ZontAPIException(message, status_code): status_code if status_code else 500
ZontAPIException(message, status_code) ==
    ApiRaised("ZontAPIException", message,
              IF status_code # 0 THEN status_code ELSE 500)

\* bool(x)
Truthy(x) ==
    CASE x.k = "NoneType" -> FALSE
      [] x.k \in {"int", "bool"} -> x.n # 0
      [] x.k = "str" -> x.s # <<>>
      [] x.k \in {"list", "tuple"} -> x.l # <<>>
      [] x.k = "dict" -> x.d # <<>>
      [] OTHER -> TRUE

\* data.get(key, default)
DictGet(data, key, default) ==
    IF HasKey(data, key) THEN GetItem(data, key) ELSE default

\* check_for_errors(result, action): the exception raised, or a return of None
check_for_errors_without_404(result, action) ==
    IF result.k # "dict"
    THEN ApiRaised("AttributeError", PyStr(<<"object has no attribute 'get'">>), 0)
    ELSE IF ~Truthy(DictGet(result, "ok", PyNone))
    THEN LET error == DictGet(result, "error", PyStr(<<action \o " failed">>))
             status_code == IF error = PyStr(<<"auth_failed">>) THEN 403 ELSE 500
         IN  ZontAPIException(error, status_code)
    ELSE ApiReturned(PyNone)

check_for_errors(result, action) ==
    IF result.k # "dict"
    THEN ApiRaised("AttributeError", PyStr(<<"object has no attribute 'get'">>), 0)
    ELSE IF ~Truthy(DictGet(result, "ok", PyNone))
    THEN LET error == DictGet(result, "error", PyStr(<<action \o " failed">>))
             status_code == IF error = PyStr(<<"auth_failed">>) THEN 403
                            ELSE IF error = PyStr(<<"no_such_device">>) THEN 404
                            ELSE 500
         IN  ZontAPIException(error, status_code)
    ELSE ApiReturned(PyNone)

\* api_request(api_route, data), on what requests.post(...).json() does:
\* resp.raises, or the decoded body resp.json
api_request(api_route, resp) ==
    IF resp.raises THEN ZontAPIException(PyStr(<<"API call failed">>), 0)
    ELSE IF resp.json = PyNone THEN ApiReturned(PyNone)
    ELSE LET checked == check_for_errors(resp.json, "API call to " \o api_route) IN
         IF checked.st # "ok" THEN checked ELSE ApiReturned(resp.json)

ApiNotCalled == [st |-> "none", msg |-> PyNone, code |-> 0, val |-> PyNone]

----------------------------------------------------------------------------
(* ZontAPI.load_data *)

\* a == b, for the values compared here: an int and a bool of one value are
\* equal
PyEq(a, b) ==
    IF a.k \in {"int", "bool"} /\ b.k \in {"int", "bool"} THEN a.n = b.n ELSE a = b

\* del data[key], for a key that is present
DelItem(data, key) ==
    LET at(item) == item.key # key IN PyDict(SelectSeq(data.d, at))

\* load_data(device_id, data_types, interval), on what requests.post(...).json()
\* does.  data_types and interval go into the body of the request only.
load_data_without_device_test(device_id, resp) ==
    LET result == api_request("/load_data", resp) IN
    IF result.st = "ZontAPIException" THEN ApiReturned(PyNone)
    ELSE IF result.st # "ok" THEN result
    ELSE IF result.val = PyNone
    THEN ApiRaised("AttributeError",
                   PyStr(<<"'NoneType' object has no attribute 'get'">>), 0)
    ELSE LET responses == DictGet(result.val, "responses", PyList(<<>>)) IN
         IF responses.k # "list"
         THEN ApiRaised("TypeError", PyStr(<<"object has no len()">>), 0)
         ELSE IF Len(responses.l) = 0
         THEN ZontAPIException(PyStr(<<"no data found">>), 404)
         ELSE LET first == responses.l[1] IN
              IF first.k # "dict"
              THEN ApiRaised("AttributeError",
                             PyStr(<<"object has no attribute 'get'">>), 0)
              ELSE IF ~Truthy(DictGet(first, "ok", PyNone))
              THEN ZontAPIException(
                       DictGet(first, "error", PyStr(<<"load data failed">>)), 0)
              ELSE IF HasKey(first, "timings")
              THEN ApiReturned(DelItem(first, "timings"))
              ELSE ApiReturned(first)

load_data(device_id, resp) ==
    LET result == api_request("/load_data", resp) IN
    IF result.st = "ZontAPIException" THEN ApiReturned(PyNone)
    ELSE IF result.st # "ok" THEN result
    ELSE IF result.val = PyNone
    THEN ApiRaised("AttributeError",
                   PyStr(<<"'NoneType' object has no attribute 'get'">>), 0)
    ELSE LET responses == DictGet(result.val, "responses", PyList(<<>>)) IN
         IF responses.k # "list"
         THEN ApiRaised("TypeError", PyStr(<<"object has no len()">>), 0)
         ELSE IF Len(responses.l) = 0
         THEN ZontAPIException(PyStr(<<"no data found">>), 404)
         ELSE LET first == responses.l[1] IN
              IF first.k # "dict"
              THEN ApiRaised("AttributeError",
                             PyStr(<<"object has no attribute 'get'">>), 0)
              ELSE IF ~PyEq(DictGet(first, "device_id", PyNone), device_id)
              THEN ZontAPIException(PyStr(<<"no data found">>), 404)
              ELSE IF ~Truthy(DictGet(first, "ok", PyNone))
              THEN ZontAPIException(
                       DictGet(first, "error", PyStr(<<"load data failed">>)), 0)
              ELSE IF HasKey(first, "timings")
              THEN ApiReturned(DelItem(first, "timings"))
              ELSE ApiReturned(first)

----------------------------------------------------------------------------
(* ZontAPI.__init__ *)

(* How the construction ended: st, msg and code as above, api_token and    *)
(* api_client the attributes of the object made.                           *)
Constructed(api_token, api_client) ==
    [st |-> "ok", msg |-> PyNone, code |-> 0,
     api_token |-> api_token, api_client |-> api_client]

NotConstructed(r) ==
    [st |-> r.st, msg |-> r.msg, code |-> r.code,
     api_token |-> PyNone, api_client |-> PyNone]

BeforeConstruction ==
    [st |-> "none", msg |-> PyNone, code |-> 0,
     api_token |-> PyNone, api_client |-> PyNone]

\* environ.get(name), environ.get(name, None)
environ_get(env, name) == env[name]

\* file.readline(): the characters up to and including the first newline
RECURSIVE readline(_)
readline(chars) ==
    IF chars = <<>> THEN <<>>
    ELSE IF Head(chars) = "\n" THEN <<"\n">>
    ELSE <<Head(chars)>> \o readline(Tail(chars))

\* str.rstrip("\n"): without the newlines at its end
RECURSIVE rstrip(_)
rstrip(chars) ==
    IF chars # <<>> /\ chars[Len(chars)] = "\n"
    THEN rstrip(SubSeq(chars, 1, Len(chars) - 1))
    ELSE chars

\* with open(path, "r", encoding="ascii") as file:
\*     file.readline().rstrip("\n")
first_line_of(fls, path) ==
    IF ~fls[path.s[1]].exists
    THEN ApiRaised("FileNotFoundError", PyStr(<<"No such file or directory">>), 0)
    ELSE ApiReturned(PyStr(rstrip(readline(fls[path.s[1]].chars))))

\* self.api_token after the three steps: the argument, the variable
\* ZONT_API_TOKEN, the file named by ZONT_API_TOKEN_FILE
api_token_env_first(token, env, fls) ==
    LET from_env == environ_get(env, "ZONT_API_TOKEN")
        from_arg == IF Truthy(from_env) THEN from_env ELSE token
    IN  IF Truthy(from_arg) THEN ApiReturned(from_arg)
        ELSE LET token_file == environ_get(env, "ZONT_API_TOKEN_FILE") IN
             IF Truthy(token_file) THEN first_line_of(fls, token_file)
             ELSE ApiReturned(from_arg)

api_token_from(token, env, fls) ==
    LET from_arg == token
        from_env == IF ~Truthy(from_arg) THEN environ_get(env, "ZONT_API_TOKEN")
                    ELSE from_arg
    IN  IF Truthy(from_env) THEN ApiReturned(from_env)
        ELSE LET token_file == environ_get(env, "ZONT_API_TOKEN_FILE") IN
             IF Truthy(token_file) THEN first_line_of(fls, token_file)
             ELSE ApiReturned(from_env)

\* self.api_client after the three steps: the argument, the variable
\* ZONT_API_CLIENT, the file named by ZONT_API_CLIENT_FILE
api_client_from(client, env, fls) ==
    LET from_arg == client
        from_env == IF ~Truthy(from_arg) THEN environ_get(env, "ZONT_API_CLIENT")
                    ELSE from_arg
    IN  IF Truthy(from_env) THEN ApiReturned(from_env)
        ELSE LET client_file == environ_get(env, "ZONT_API_CLIENT_FILE") IN
             IF Truthy(client_file) THEN first_line_of(fls, client_file)
             ELSE ApiReturned(from_env)

\* ZontAPI(token=token, client=client) in environment env with files fls
ZontAPI(token, client, env, fls) ==
    LET api_token == api_token_from(token, env, fls) IN
    IF api_token.st # "ok" THEN NotConstructed(api_token)
    ELSE IF ~Truthy(api_token.val)
    THEN NotConstructed(ZontAPIException(PyStr(<<"token not provided">>), 400))
    ELSE LET api_client == api_client_from(client, env, fls) IN
         IF api_client.st # "ok" THEN NotConstructed(api_client)
         ELSE IF ~Truthy(api_client.val)
         THEN NotConstructed(ZontAPIException(PyStr(<<"client not provided">>), 400))
         ELSE Constructed(api_token.val, api_client.val)

----------------------------------------------------------------------------
(* ZontDevice.__init__ *)

\* datetime.fromtimestamp(x)
fromtimestamp(x) == [k |-> "datetime", n |-> x.n, s |-> <<>>, l |-> <<>>, d |-> <<>>]

\* ZontDevice(device_data, api=self): the device, a record of its attributes
ZontDevice(device_data) ==
    LET dd == IF device_data = PyNone THEN PyDict(<<>>) ELSE device_data IN
    IF dd.k # "dict"
    THEN ApiRaised("TypeError", PyStr(<<"argument is not iterable">>), 0)
    ELSE IF ~HasKey(dd, "id")
    THEN ZontAPIException(PyStr(<<"device must have an ID">>), 0)
    ELSE IF ~HasKey(dd, "name")
    THEN ZontAPIException(PyStr(<<"device must have a name">>), 0)
    ELSE LET last_receive_time == DictGet(dd, "last_receive_time", PyInt(0)) IN
         IF last_receive_time.k \notin {"int", "bool"}
         THEN ApiRaised("TypeError", PyStr(<<"an integer is required">>), 0)
         ELSE ApiReturned([id |-> DictGet(dd, "id", PyNone),
                           name |-> DictGet(dd, "name", PyNone),
                           data |-> dd,
                           last_seen |-> fromtimestamp(last_receive_time),
                           last_seen_relative |->
                               DictGet(dd, "last_receive_time_relative", PyInt(-1))])

----------------------------------------------------------------------------
(* ZontAPI.get_devices *)

(* How get_devices ended: as above, val the list of devices returned.      *)
DevicesReturned(devices) == [st |-> "ok", msg |-> PyNone, code |-> 0, val |-> devices]

DevicesRaised(r) == [st |-> r.st, msg |-> r.msg, code |-> r.code, val |-> <<>>]

DevicesNotCalled == [st |-> "none", msg |-> PyNone, code |-> 0, val |-> <<>>]

\* for device_data in raw_devices, at element i.  The value filter_pii
\* returns is dropped: the device is made of device_data as the call left it.
RECURSIVE get_devices_loop(_, _, _)
get_devices_loop(raw_devices, i, devices) ==
    IF i > Len(raw_devices) THEN DevicesReturned(devices)
    ELSE LET filtered == filter_pii(raw_devices[i]) IN
         IF filtered.st # "ok"
         THEN DevicesRaised(ApiRaised(filtered.st, PyStr(<<filtered.msg>>), 0))
         ELSE LET device == ZontDevice(filtered.data) IN
              IF device.st # "ok" THEN DevicesRaised(device)
              ELSE get_devices_loop(raw_devices, i + 1, Append(devices, device.val))

\* get_devices without its tests of result and raw_devices
get_devices_without_tests(resp) ==
    LET result == api_request("/devices", resp) IN
    IF result.st # "ok" THEN DevicesRaised(result)
    ELSE IF result.val = PyNone
    THEN DevicesRaised(ApiRaised("AttributeError",
                                 PyStr(<<"'NoneType' object has no attribute 'get'">>), 0))
    ELSE LET raw_devices == DictGet(result.val, "devices", PyNone) IN
         IF raw_devices.k # "list"
         THEN DevicesRaised(ApiRaised("TypeError", PyStr(<<"object is not iterable">>), 0))
         ELSE get_devices_loop(raw_devices.l, 1, <<>>)

get_devices(resp) ==
    LET result == api_request("/devices", resp) IN
    IF result.st # "ok" THEN DevicesRaised(result)
    ELSE IF result.val = PyNone THEN DevicesReturned(<<>>)
    ELSE LET raw_devices == DictGet(result.val, "devices", PyNone) IN
         IF ~Truthy(raw_devices) THEN DevicesReturned(<<>>)
         ELSE IF raw_devices.k # "list" THEN DevicesReturned(<<>>)
         ELSE get_devices_loop(raw_devices.l, 1, <<>>)

----------------------------------------------------------------------------
(* ZontDevice.update_info *)

(* How update_info ended and left the device: out is the outcome, its val  *)
(* the bool returned; device the attributes of self after the call.        *)
Updated(out, device) == [out |-> out, device |-> device]

\* for device in devices, at element i
RECURSIVE update_info_loop_stores_each(_, _, _)
update_info_loop_stores_each(self, devices, i) ==
    IF i > Len(devices) THEN Updated(ApiReturned(PyBool(FALSE)), self)
    ELSE LET stored == [self EXCEPT
                 !.data = devices[i].data,
                 !.last_seen =
                     fromtimestamp(DictGet(devices[i].data, "last_receive_time", PyInt(0))),
                 !.last_seen_relative =
                     DictGet(devices[i].data, "last_receive_time_relative", PyInt(-1))]
         IN  IF PyEq(devices[i].id, self.id)
             THEN Updated(ApiReturned(PyBool(TRUE)), stored)
             ELSE update_info_loop_stores_each(stored, devices, i + 1)

RECURSIVE update_info_loop(_, _, _)
update_info_loop(self, devices, i) ==
    IF i > Len(devices) THEN Updated(ApiReturned(PyBool(FALSE)), self)
    ELSE IF PyEq(devices[i].id, self.id)
    THEN Updated(ApiReturned(PyBool(TRUE)),
                 [self EXCEPT
                     !.data = devices[i].data,
                     !.last_seen =
                         fromtimestamp(DictGet(devices[i].data, "last_receive_time", PyInt(0))),
                     !.last_seen_relative =
                         DictGet(devices[i].data, "last_receive_time_relative", PyInt(-1))])
    ELSE update_info_loop(self, devices, i + 1)

\* self.update_info(), for a device with (api) or without an API object, on
\* what requests.post(...).json() does
update_info(self, api, resp) ==
    IF ~api
    THEN Updated(ZontAPIException(
                     PyStr(<<"API object not associated with a given device">>), 400),
                 self)
    ELSE LET devices == get_devices(resp) IN
         IF devices.st # "ok"
         THEN Updated(ApiRaised(devices.st, devices.msg, devices.code), self)
         ELSE IF Len(devices.val) = 0
         THEN Updated(ApiReturned(PyBool(FALSE)), self)
         ELSE update_info_loop(self, devices.val, 1)

----------------------------------------------------------------------------
(* ZontDevice.get_sensor_name *)

\* The families, in the order of the list the for statement walks
source_families_reversed ==
    <<"wired_temperature_sensors", "radiosensors433", "radiosensors", "io_extensions",
      "heating_circuits", "boiler_adapters", "analog_temperature_sensors",
      "analog_inputs">>

source_families ==
    <<"analog_inputs", "analog_temperature_sensors", "boiler_adapters",
      "heating_circuits", "io_extensions", "radiosensors", "radiosensors433",
      "wired_temperature_sensors">>

\* The inner for statement ended without a return
NoMatch == [st |-> "next", msg |-> "", val |-> PyNone]

RECURSIVE sensor_loop(_, _, _)
\* for sensor in source, at element j
sensor_loop(source, j, sensor_id) ==
    IF j > Len(source) THEN NoMatch
    ELSE LET sensor == source[j] IN
      IF sensor.k = "NoneType" THEN sensor_loop(source, j + 1, sensor_id)
      ELSE IF sensor.k # "dict"
      THEN Raised("AttributeError", "object has no attribute 'get'")
      ELSE LET id == PyIntOf(DictGet(sensor, "id", PyNone))
               wanted == PyIntOf(sensor_id)
           IN  IF id.st # "ok" THEN id
               ELSE IF wanted.st # "ok" THEN wanted
               ELSE IF id.val.n = wanted.val.n
               THEN Returned(DictGet(sensor, "name", PyNone))
               ELSE sensor_loop(source, j + 1, sensor_id)

RECURSIVE family_loop(_, _, _)
\* for source_family in [...], at family f
family_loop(self, f, sensor_id) ==
    IF f > Len(source_families) THEN Returned(PyNone)
    ELSE LET z3k_config == DictGet(self.data, "z3k_config", PyNone) IN
      IF z3k_config.k # "dict"
      THEN Raised("AttributeError", "object has no attribute 'get'")
      ELSE LET source == DictGet(z3k_config, source_families[f], PyNone) IN
           IF source.k # "list" THEN family_loop(self, f + 1, sensor_id)
           ELSE LET r == sensor_loop(source.l, 1, sensor_id) IN
                IF r = NoMatch THEN family_loop(self, f + 1, sensor_id) ELSE r

get_sensor_name(self, sensor_id) == family_loop(self, 1, sensor_id)

----------------------------------------------------------------------------
(* examples/load_data/export_timeseries.py: main, the splitting of the     *)
(* range into periods. Times and durations are in seconds.                 *)

\* timedelta(hours=hours, seconds=seconds)
timedelta(hours, seconds) == hours * 3600 + seconds

\* --exclusive-to: action="store_true", default=True
exclusive_to == TRUE

\* timedelta(hours=1) in the hourly branch, timedelta(hours=24) in the daily
period_of(period) == IF period = "hourly" THEN timedelta(1, 0) ELSE timedelta(24, 0)

\* dt_ito = dt_ifrom + timedelta(hours=...) - timedelta(seconds=1)
window_end_whole(ifrom, period) == ifrom + period_of(period)

window_end(ifrom, period) == ifrom + period_of(period) - timedelta(0, 1)

----------------------------------------------------------------------------
(* The encoded series the decoder is called with *)

MaxLen == 3

\* Leading values that are ints: anchors, deltas and the zero sentinel.
LeadingInts == {-2, -1, 0, 1, 2}

\* Payloads: none, and one of a zero and a nested sequence of a negative.
Payloads == {<<>>, <<PyInt(0), PyList(<<PyInt(-1)>>)>>}

\* Points whose leading field is an int, a numeric str, a non-numeric str,
\* None or a nested sequence, and the point with no field at all.
EncodedPoints ==
    {PyList(<<PyInt(n)>> \o p) : n \in LeadingInts, p \in Payloads}
    \cup {PyList(<<PyStr(<<"-", "1">>)>>), PyList(<<PyStr(<<"o", "n", "e">>)>>),
          PyList(<<PyNone>>), PyList(<<PyList(<<>>)>>), PyList(<<>>)}

\* Elements of a series: points, and an element that is no list.
SeriesElements == EncodedPoints \cup {PyInt(3)}

SeqsUpTo(S, n) == UNION {[1..m -> S] : m \in 0..n}

EncodedSeries ==
    {PyList(l) : l \in SeqsUpTo(SeriesElements, MaxLen)}
    \cup {PyNone, PyTuple(<<PyInt(0), PyInt(0)>>)}

----------------------------------------------------------------------------
(* The JSON-like trees the redactor is called with: every tree of at most  *)
(* MaxNodes nodes over TreeKeys and TreeLeaves                             *)

MaxNodes == 4

\* A sensitive scalar key, the sensitive mapping key, the sensitive sequence
\* key and a key of no policy.
TreeKeys == {"password", "sim_id", "loc", "info"}

TreeLeaves == {PyStr(<<"p">>)}

\* The sequences of n distinct keys
KeySeqs(n) ==
    {ks \in [1..n -> TreeKeys] : \A i, j \in 1..n : i # j => ks[i] # ks[j]}

RECURSIVE TreesOfSize(_)
RECURSIVE ForestsOfSize(_)

\* The sequences of trees that have n nodes together
ForestsOfSize(n) ==
    IF n = 0 THEN {<<>>}
    ELSE UNION {{<<t>> \o f : t \in TreesOfSize(m), f \in ForestsOfSize(n - m)} :
                m \in 1..n}

\* The dicts whose values are the trees of f, under each choice of distinct keys
DictsOver(f) ==
    {PyDict([i \in 1..Len(f) |-> Item(ks[i], f[i])]) : ks \in KeySeqs(Len(f))}

\* The trees of n nodes: a leaf, or a list or a dict over n - 1 nodes
TreesOfSize(n) ==
    (IF n = 1 THEN TreeLeaves ELSE {})
    \cup {PyList(f) : f \in ForestsOfSize(n - 1)}
    \cup UNION {DictsOver(f) : f \in ForestsOfSize(n - 1)}

\* t is a tree of at most MaxNodes nodes
IsTree(t) ==
    \/ t \in TreeLeaves
    \/ \E m \in 0..(MaxNodes - 1) : \E f \in ForestsOfSize(m) :
          \/ t = PyList(f)
          \/ t \in DictsOver(f)

----------------------------------------------------------------------------
(* The answers of the service to /devices *)

MaxDevices == 2

NoResponse == [raises |-> FALSE, json |-> PyNone]

\* A device record: id, name and the items of a tree
DeviceRecord(id, name, tree) ==
    PyDict(<<Item("id", PyInt(id)), Item("name", PyStr(<<name>>))>> \o tree.d)

PlainRecords ==
    {DeviceRecord(id, "house", PyDict(<<>>)) : id \in 1..MaxDevices}
    \cup {PyDict(<<Item("name", PyStr(<<"house">>))>>),
          PyDict(<<Item("id", PyInt(1))>>),
          PyNone}

\* The values of the devices field: absent (<<>>), null, empty, no list, and
\* lists of plain records
PlainDevicesItems ==
    {<<>>, <<Item("devices", PyNone)>>, <<Item("devices", PyList(<<>>))>>,
     <<Item("devices", PyDict(<<Item("id", PyInt(1))>>))>>}
    \cup {<<Item("devices", PyList(l))>> :
          l \in UNION {[1..m -> PlainRecords] : m \in 1..MaxDevices}}

OkItems ==
    {<<>>, <<Item("ok", PyBool(TRUE))>>, <<Item("ok", PyBool(FALSE))>>}

ErrorItems ==
    {<<>>} \cup {<<Item("error", PyStr(<<e>>))>> :
                 e \in {"auth_failed", "no_such_device", "internal_error"}}

\* The transport fails, the body is null or no mapping, or it is a mapping
\* of ok, error and devices
PlainResponses ==
    {[raises |-> TRUE, json |-> PyNone], NoResponse,
     [raises |-> FALSE, json |-> PyList(<<>>)]}
    \cup {[raises |-> FALSE, json |-> PyDict(o \o e \o d)] :
          o \in OkItems, e \in ErrorItems, d \in PlainDevicesItems}

\* An ok answer with one device whose record holds the items of a tree
TreeResponse(tree) ==
    [raises |-> FALSE,
     json |-> PyDict(<<Item("ok", PyBool(TRUE)),
                       Item("devices", PyList(<<DeviceRecord(1, "house", tree)>>))>>)]

----------------------------------------------------------------------------
(* The arguments, the environment and the files ZontAPI is constructed     *)
(* with                                                                    *)

EnvNames ==
    {"ZONT_API_TOKEN", "ZONT_API_CLIENT", "ZONT_API_TOKEN_FILE",
     "ZONT_API_CLIENT_FILE"}

Paths == {"/t", "/c"}

\* No file, or a file of no line, of one line with and without its newline,
\* of an empty first line, and of two lines
NoFile == [exists |-> FALSE, chars |-> <<>>]

FileContents ==
    {<<>>, <<"F">>, <<"F", "\n">>, <<"\n", "F">>, <<"F", "\n", "G", "\n">>}

Files == {NoFile} \cup {[exists |-> TRUE, chars |-> c] : c \in FileContents}

\* An argument: not given, empty, or given
Arguments == {PyNone, PyStr(<<>>), PyStr(<<"A">>)}

\* A variable: unset, empty, or set
EnvValues == {PyNone, PyStr(<<>>), PyStr(<<"E">>)}

\* A variable that names a file: unset, empty, or one of the paths
EnvPaths == {PyNone, PyStr(<<>>)} \cup {PyStr(<<p>>) : p \in Paths}

\* Nothing is being constructed
NotConstructing ==
    /\ arg_token = PyNone
    /\ arg_client = PyNone
    /\ environ = [name \in EnvNames |-> PyNone]
    /\ files = [p \in Paths |-> NoFile]
    /\ zapi = BeforeConstruction

\* Nothing is being requested
NotRequesting ==
    /\ route = ""
    /\ api_result = ApiNotCalled
    /\ load_device_id = PyNone
    /\ load_result = ApiNotCalled

\* No device is being updated
NoDevice ==
    [id |-> PyNone, name |-> PyNone, data |-> PyNone, last_seen |-> PyNone,
     last_seen_relative |-> PyNone]

NotUpdating ==
    /\ zdev = NoDevice
    /\ zdev_api = FALSE
    /\ update_result = ApiNotCalled
    /\ updates = 0

\* get_sensor_name is not called
NotSensing ==
    /\ sensor_wanted = PyNone
    /\ sensor_result = NotCalled

\* The tables are as the class body made them, and no caller holds a tree
NotAliasing ==
    /\ pii_store = InitStore
    /\ pii_held = PyNone
    /\ pii_returned = StoreNotCalled
    /\ redacts = 0
    /\ alias_calls = 0

\* The exporter is not running
NotExporting ==
    /\ from_datetime = 0
    /\ to_datetime = 0
    /\ arg_period = "unset"
    /\ dt_to = 0
    /\ dt_delta = 0
    /\ dt_ifrom = 0
    /\ dt_ito = 0
    /\ exported = <<>>
    /\ pc = "idle"

----------------------------------------------------------------------------
(* Specification of the decoder: one call on any series with any flags *)

InitDecode ==
    /\ delta_time_array \in EncodedSeries
    /\ sort \in BOOLEAN
    /\ reverse \in BOOLEAN
    /\ filter_duplicates \in {"unset", "True", "False"}
    /\ dta_result = NotCalled
    /\ dta_after = delta_time_array
    /\ dta_again = NotCalled
    /\ pii_data = PyNone
    /\ pii_result = PiiNotCalled
    /\ pii_again = PiiNotCalled
    /\ response = NoResponse
    /\ devices_result = DevicesNotCalled
    /\ NotConstructing
    /\ NotUpdating
    /\ NotSensing
    /\ NotAliasing
    /\ NotExporting
    /\ NotRequesting

ConvertDeltaTimeArray ==
    /\ dta_result = NotCalled
    /\ dta_result' = call_convert_delta_time_array(dta_after, sort, reverse,
                                                   filter_duplicates)
    /\ dta_after' = delta_time_array_left(dta_after)
    /\ UNCHANGED <<delta_time_array, sort, reverse, filter_duplicates, dta_again>>
    /\ UNCHANGED <<pii_vars, dev_vars, init_vars, req_vars, load_vars, zdev_vars>>
    /\ UNCHANGED <<sensor_vars, alias_vars, export_vars>>

NextDecode == ConvertDeltaTimeArray

SpecDecode == InitDecode /\ [][NextDecode]_vars

----------------------------------------------------------------------------
(* Specification of the decoder called twice: the same call, with the same *)
(* object and the same flags, once more                                    *)

ConvertAgain ==
    /\ dta_result # NotCalled
    /\ dta_again = NotCalled
    /\ dta_again' = call_convert_delta_time_array(dta_after, sort, reverse,
                                                  filter_duplicates)
    /\ dta_after' = delta_time_array_left(dta_after)
    /\ UNCHANGED <<delta_time_array, sort, reverse, filter_duplicates, dta_result>>
    /\ UNCHANGED <<pii_vars, dev_vars, init_vars, req_vars, load_vars, zdev_vars>>
    /\ UNCHANGED <<sensor_vars, alias_vars, export_vars>>

NextDecodeTwice == ConvertDeltaTimeArray \/ ConvertAgain

SpecDecodeTwice == InitDecode /\ [][NextDecodeTwice]_vars

----------------------------------------------------------------------------
(* Specification of the redactor: filter_pii on any tree, then on the      *)
(* value it returned                                                       *)

InitRedact ==
    /\ IsTree(pii_data)
    /\ pii_result = PiiNotCalled
    /\ pii_again = PiiNotCalled
    /\ delta_time_array = PyNone
    /\ sort = TRUE
    /\ reverse = FALSE
    /\ filter_duplicates = "unset"
    /\ dta_result = NotCalled
    /\ dta_after = delta_time_array
    /\ dta_again = NotCalled
    /\ response = NoResponse
    /\ devices_result = DevicesNotCalled
    /\ NotConstructing
    /\ NotUpdating
    /\ NotSensing
    /\ NotAliasing
    /\ NotExporting
    /\ NotRequesting

\* result = ZontAPI.filter_pii(pii_data)
FilterPii ==
    /\ pii_result = PiiNotCalled
    /\ pii_result' = filter_pii(pii_data)
    /\ UNCHANGED <<pii_data, pii_again>>
    /\ UNCHANGED <<dta_vars, dev_vars, init_vars, req_vars, load_vars, zdev_vars>>
    /\ UNCHANGED <<sensor_vars, alias_vars, export_vars>>

\* ZontAPI.filter_pii(result)
FilterPiiAgain ==
    /\ pii_result.st = "ok"
    /\ pii_again = PiiNotCalled
    /\ pii_again' = filter_pii(pii_result.val)
    /\ UNCHANGED <<pii_data, pii_result>>
    /\ UNCHANGED <<dta_vars, dev_vars, init_vars, req_vars, load_vars, zdev_vars>>
    /\ UNCHANGED <<sensor_vars, alias_vars, export_vars>>

NextRedact == FilterPii \/ FilterPiiAgain

SpecRedact == InitRedact /\ [][NextRedact]_vars

----------------------------------------------------------------------------
(* Specification of the device listing: get_devices on any answer *)

InitDevices ==
    /\ \/ response \in PlainResponses
       \/ \E m \in 0..(MaxNodes - 1) : \E f \in ForestsOfSize(m) :
             \E tree \in DictsOver(f) : response = TreeResponse(tree)
    /\ devices_result = DevicesNotCalled
    /\ delta_time_array = PyNone
    /\ sort = TRUE
    /\ reverse = FALSE
    /\ filter_duplicates = "unset"
    /\ dta_result = NotCalled
    /\ dta_after = delta_time_array
    /\ dta_again = NotCalled
    /\ pii_data = PyNone
    /\ pii_result = PiiNotCalled
    /\ pii_again = PiiNotCalled
    /\ NotConstructing
    /\ NotUpdating
    /\ NotSensing
    /\ NotAliasing
    /\ NotExporting
    /\ NotRequesting

\* devices = zapi.get_devices()
GetDevices ==
    /\ devices_result = DevicesNotCalled
    /\ devices_result' = get_devices(response)
    /\ UNCHANGED response
    /\ UNCHANGED <<dta_vars, pii_vars, init_vars, req_vars, load_vars, zdev_vars>>
    /\ UNCHANGED <<sensor_vars, alias_vars, export_vars>>

NextDevices == GetDevices

SpecDevices == InitDevices /\ [][NextDevices]_vars

----------------------------------------------------------------------------
(* Specification of the construction: ZontAPI(token, client) with any      *)
(* arguments, in any environment, over any files                           *)

InitConstruct ==
    /\ arg_token \in Arguments
    /\ arg_client \in Arguments
    /\ \E t, c \in EnvValues : \E tf, cf \in EnvPaths :
          environ = [name \in EnvNames |->
                        CASE name = "ZONT_API_TOKEN" -> t
                          [] name = "ZONT_API_CLIENT" -> c
                          [] name = "ZONT_API_TOKEN_FILE" -> tf
                          [] OTHER -> cf]
    /\ files \in [Paths -> Files]
    /\ zapi = BeforeConstruction
    /\ delta_time_array = PyNone
    /\ sort = TRUE
    /\ reverse = FALSE
    /\ filter_duplicates = "unset"
    /\ dta_result = NotCalled
    /\ dta_after = delta_time_array
    /\ dta_again = NotCalled
    /\ pii_data = PyNone
    /\ pii_result = PiiNotCalled
    /\ pii_again = PiiNotCalled
    /\ response = NoResponse
    /\ devices_result = DevicesNotCalled
    /\ NotRequesting
    /\ NotUpdating
    /\ NotSensing
    /\ NotAliasing
    /\ NotExporting

\* zapi = ZontAPI(token=arg_token, client=arg_client)
Construct ==
    /\ zapi = BeforeConstruction
    /\ zapi' = ZontAPI(arg_token, arg_client, environ, files)
    /\ UNCHANGED <<arg_token, arg_client, environ, files>>
    /\ UNCHANGED <<dta_vars, pii_vars, dev_vars, req_vars, load_vars, zdev_vars>>
    /\ UNCHANGED <<sensor_vars, alias_vars, export_vars>>

NextConstruct == Construct

SpecConstruct == InitConstruct /\ [][NextConstruct]_vars

----------------------------------------------------------------------------
(* Specification of a request: api_request on any route and any answer *)

ApiRoutes == {"/devices", "/load_data"}

InitRequest ==
    /\ route \in ApiRoutes
    /\ response \in PlainResponses
    /\ api_result = ApiNotCalled
    /\ load_device_id = PyNone
    /\ load_result = ApiNotCalled
    /\ devices_result = DevicesNotCalled
    /\ delta_time_array = PyNone
    /\ sort = TRUE
    /\ reverse = FALSE
    /\ filter_duplicates = "unset"
    /\ dta_result = NotCalled
    /\ dta_after = delta_time_array
    /\ dta_again = NotCalled
    /\ pii_data = PyNone
    /\ pii_result = PiiNotCalled
    /\ pii_again = PiiNotCalled
    /\ NotConstructing
    /\ NotUpdating
    /\ NotSensing
    /\ NotAliasing
    /\ NotExporting

\* result = self.api_request(api_route, data)
ApiRequest ==
    /\ api_result = ApiNotCalled
    /\ api_result' = api_request(route, response)
    /\ UNCHANGED <<route, response, devices_result>>
    /\ UNCHANGED <<dta_vars, pii_vars, init_vars, load_vars, zdev_vars>>
    /\ UNCHANGED <<sensor_vars, alias_vars, export_vars>>

NextRequest == ApiRequest

SpecRequest == InitRequest /\ [][NextRequest]_vars

----------------------------------------------------------------------------
(* Specification of load_data: one call for any device on any answer *)

MaxResponses == 2

\* The device ids asked for and answered
DeviceIds == {PyInt(42), PyInt(451)}

\* An entry of responses: a mapping of device_id, ok and a data type, each
\* given or not, with timings when it is ok and with or without an error
\* when it is not
ResponseEntries ==
    UNION {{PyDict(i \o o \o e \o <<Item("z3k_temperature", PyDict(<<>>))>> \o t) :
               i \in {<<>>} \cup {<<Item("device_id", id)>> : id \in DeviceIds},
               e \in IF o = <<Item("ok", PyBool(FALSE))>>
                     THEN {<<>>, <<Item("error", PyStr(<<"internal_error">>))>>}
                     ELSE {<<>>},
               t \in IF o = <<Item("ok", PyBool(TRUE))>>
                     THEN {<<>>, <<Item("timings", PyDict(<<>>))>>}
                     ELSE {<<>>}} :
           o \in OkItems}

\* The values of the responses field: absent (<<>>), null, and lists of
\* entries and nulls
ResponsesItems ==
    {<<>>, <<Item("responses", PyNone)>>}
    \cup {<<Item("responses", PyList(l))>> :
          l \in UNION {[1..m -> ResponseEntries \cup {PyNone}] : m \in 0..MaxResponses}}

\* The transport fails, the body is null or no mapping, or it is a mapping
\* of ok, error and responses
LoadDataResponses ==
    {[raises |-> TRUE, json |-> PyNone], NoResponse,
     [raises |-> FALSE, json |-> PyList(<<>>)]}
    \cup {[raises |-> FALSE, json |-> PyDict(o \o e \o r)] :
          o \in OkItems, e \in ErrorItems, r \in ResponsesItems}

InitLoadData ==
    /\ load_device_id \in DeviceIds
    /\ response \in LoadDataResponses
    /\ load_result = ApiNotCalled
    /\ route = ""
    /\ api_result = ApiNotCalled
    /\ devices_result = DevicesNotCalled
    /\ delta_time_array = PyNone
    /\ sort = TRUE
    /\ reverse = FALSE
    /\ filter_duplicates = "unset"
    /\ dta_result = NotCalled
    /\ dta_after = delta_time_array
    /\ dta_again = NotCalled
    /\ pii_data = PyNone
    /\ pii_result = PiiNotCalled
    /\ pii_again = PiiNotCalled
    /\ NotConstructing
    /\ NotUpdating
    /\ NotSensing
    /\ NotAliasing
    /\ NotExporting

\* data = zapi.load_data(load_device_id)
LoadData ==
    /\ load_result = ApiNotCalled
    /\ load_result' = load_data(load_device_id, response)
    /\ UNCHANGED <<load_device_id, response, devices_result>>
    /\ UNCHANGED <<dta_vars, pii_vars, init_vars, req_vars, zdev_vars>>
    /\ UNCHANGED <<sensor_vars, alias_vars, export_vars>>

NextLoadData == LoadData

SpecLoadData == InitLoadData /\ [][NextLoadData]_vars

----------------------------------------------------------------------------
(* Specification of a device that is updated: update_info, called up to    *)
(* MaxUpdates times, each time on any answer                               *)

MaxUpdates == 2

\* What a record holds besides id and name: nothing; the times it was last
\* seen and a password; a sim_id mapping
NoExtra == PyDict(<<>>)

SeenExtra ==
    PyDict(<<Item("last_receive_time", PyInt(5)),
             Item("last_receive_time_relative", PyInt(1)),
             Item("password", PyStr(<<"p">>))>>)

SimExtra == PyDict(<<Item("sim_id", PyDict(<<Item("operator", PyStr(<<"op">>))>>))>>)

RecordExtras == {NoExtra, SeenExtra, SimExtra}

\* Records of the device under its name and under a new one, of another
\* device, and a record without name
UpdateRecords ==
    {DeviceRecord(42, "house", NoExtra), DeviceRecord(42, "home", SeenExtra),
     DeviceRecord(42, "house", SimExtra), DeviceRecord(451, "home", SeenExtra),
     PyDict(<<Item("id", PyInt(42))>>)}

\* The transport fails, the body is null, the service refuses, or it
\* answers with a list of records
UpdateResponses ==
    {[raises |-> TRUE, json |-> PyNone], NoResponse,
     [raises |-> FALSE,
      json |-> PyDict(<<Item("ok", PyBool(FALSE)),
                        Item("error", PyStr(<<"auth_failed">>))>>)]}
    \cup {[raises |-> FALSE,
           json |-> PyDict(<<Item("ok", PyBool(TRUE)), Item("devices", PyList(l))>>)] :
          l \in UNION {[1..m -> UpdateRecords] : m \in 0..MaxDevices}}

\* zdev = ZontDevice(device_data), with or without api
InitUpdate ==
    /\ \E extra \in RecordExtras :
          zdev = ZontDevice(DeviceRecord(42, "house", extra)).val
    /\ zdev_api \in BOOLEAN
    /\ update_result = ApiNotCalled
    /\ updates = 0
    /\ response = NoResponse
    /\ devices_result = DevicesNotCalled
    /\ delta_time_array = PyNone
    /\ sort = TRUE
    /\ reverse = FALSE
    /\ filter_duplicates = "unset"
    /\ dta_result = NotCalled
    /\ dta_after = delta_time_array
    /\ dta_again = NotCalled
    /\ pii_data = PyNone
    /\ pii_result = PiiNotCalled
    /\ pii_again = PiiNotCalled
    /\ NotConstructing
    /\ NotRequesting
    /\ NotSensing
    /\ NotAliasing
    /\ NotExporting

\* zdev.update_info(), the service answering with any of UpdateResponses
UpdateInfo ==
    /\ updates < MaxUpdates
    /\ \E resp \in UpdateResponses :
          LET u == update_info(zdev, zdev_api, resp) IN
          /\ response' = resp
          /\ zdev' = u.device
          /\ update_result' = u.out
    /\ updates' = updates + 1
    /\ UNCHANGED <<zdev_api, devices_result>>
    /\ UNCHANGED <<dta_vars, pii_vars, init_vars, req_vars, load_vars>>
    /\ UNCHANGED <<sensor_vars, alias_vars, export_vars>>

NextUpdate == UpdateInfo

SpecUpdate == InitUpdate /\ [][NextUpdate]_vars

----------------------------------------------------------------------------
(* Specification of a device with sensors: get_sensor_name, called once    *)
(* with any id on any configuration                                        *)

MaxSensors == 2

Sensor(id, name) == PyDict(<<Item("name", PyStr(name)), Item("id", PyInt(id))>>)

\* The entries of a family: null, two sensors of one id, one of another
SensorEntries(family) ==
    {PyNone, Sensor(7, <<family, "A">>), Sensor(7, <<family, "B">>),
     Sensor(8, <<family, "C">>)}

\* What z3k_config holds for a family: nothing, null, something that is no
\* list, or a list of entries
FamilyItems(family) ==
    {<<>>, <<Item(family, PyNone)>>, <<Item(family, PyDict(<<>>))>>}
    \cup {<<Item(family, PyList(l))>> :
            l \in UNION {[1..m -> SensorEntries(family)] : m \in 0..MaxSensors}}

\* For one family in the middle: nothing, null, one sensor, or an entry
\* without id
MiddleItems(family) ==
    {<<>>, <<Item(family, PyNone)>>,
     <<Item(family, PyList(<<Sensor(7, <<family, "A">>)>>))>>,
     <<Item(family, PyList(<<PyDict(<<Item("name", PyStr(<<family>>))>>)>>))>>}

\* z3k_config: its keys come in another order than the families are searched
SensorConfigs ==
    {PyDict(last \o middle \o first) :
        last \in FamilyItems("wired_temperature_sensors"),
        middle \in MiddleItems("boiler_adapters"),
        first \in FamilyItems("analog_inputs")}

SensorIds == {PyInt(7), PyInt(8), PyInt(9)}

\* zdev = ZontDevice(device_data), with or without z3k_config
InitSensors ==
    /\ \/ \E config \in SensorConfigs :
             zdev = ZontDevice(DeviceRecord(42, "house",
                                   PyDict(<<Item("z3k_config", config)>>))).val
       \/ zdev = ZontDevice(DeviceRecord(42, "house", PyDict(<<>>))).val
    /\ zdev_api = FALSE
    /\ update_result = ApiNotCalled
    /\ updates = 0
    /\ sensor_wanted \in SensorIds
    /\ sensor_result = NotCalled
    /\ response = NoResponse
    /\ devices_result = DevicesNotCalled
    /\ delta_time_array = PyNone
    /\ sort = TRUE
    /\ reverse = FALSE
    /\ filter_duplicates = "unset"
    /\ dta_result = NotCalled
    /\ dta_after = delta_time_array
    /\ dta_again = NotCalled
    /\ pii_data = PyNone
    /\ pii_result = PiiNotCalled
    /\ pii_again = PiiNotCalled
    /\ NotConstructing
    /\ NotRequesting
    /\ NotAliasing
    /\ NotExporting

\* zdev.get_sensor_name(sensor_wanted)
GetSensorName ==
    /\ sensor_result = NotCalled
    /\ sensor_result' = get_sensor_name(zdev, sensor_wanted)
    /\ UNCHANGED sensor_wanted
    /\ UNCHANGED <<dta_vars, pii_vars, dev_vars, init_vars, req_vars, load_vars>>
    /\ UNCHANGED <<zdev_vars, alias_vars, export_vars>>

NextSensors == GetSensorName

SpecSensors == InitSensors /\ [][NextSensors]_vars

----------------------------------------------------------------------------
(* Specification of the tables under repeated calls: filter_pii on a tree   *)
(* the caller holds and on the value returned, up to MaxRedacts calls, the  *)
(* caller storing objects it got hold of in its tree between the calls      *)

MaxRedacts == 3

\* The dicts the caller starts with
HeldTrees == UNION {DictsOver(f) : f \in UNION {ForestsOfSize(m) : m \in 0..(MaxNodes - 2)}}

RECURSIVE ObjectsIn(_, _)
\* The names of the objects of the tables that v holds, at any depth
ObjectsIn(store, v) ==
    CASE v.k = "ref" -> {v.s} \cup ObjectsIn(store, store[v.s])
      [] v.k = "dict" -> UNION {ObjectsIn(store, v.d[i].val) : i \in DOMAIN v.d}
      [] v.k = "list" -> UNION {ObjectsIn(store, v.l[i]) : i \in DOMAIN v.l}
      [] OTHER -> {}

InitShared ==
    /\ pii_store = InitStore
    /\ pii_held \in HeldTrees
    /\ pii_returned = StoreNotCalled
    /\ redacts = 0
    /\ alias_calls = 0
    /\ pii_data = PyNone
    /\ pii_result = PiiNotCalled
    /\ pii_again = PiiNotCalled
    /\ delta_time_array = PyNone
    /\ sort = TRUE
    /\ reverse = FALSE
    /\ filter_duplicates = "unset"
    /\ dta_result = NotCalled
    /\ dta_after = delta_time_array
    /\ dta_again = NotCalled
    /\ response = NoResponse
    /\ devices_result = DevicesNotCalled
    /\ NotConstructing
    /\ NotRequesting
    /\ NotUpdating
    /\ NotSensing
    /\ NotExporting

\* ZontAPI.filter_pii(held)
FilterHeld ==
    /\ redacts < MaxRedacts
    /\ LET r == shared_filter_pii(pii_store, pii_held) IN
       /\ pii_returned' = r
       /\ pii_held' = r.data
       /\ pii_store' = r.store
    /\ redacts' = redacts + 1
    /\ alias_calls' =
          IF ObjectsIn(pii_store, pii_held) # {} THEN alias_calls + 1 ELSE alias_calls
    /\ UNCHANGED <<dta_vars, pii_vars, dev_vars, init_vars, req_vars, load_vars>>
    /\ UNCHANGED <<zdev_vars, sensor_vars, export_vars>>

\* ZontAPI.filter_pii(returned), returned an object of the tables
FilterReturned ==
    /\ redacts < MaxRedacts
    /\ pii_returned.st = "ok"
    /\ pii_returned.val.k = "ref"
    /\ LET r == shared_filter_pii(pii_store, pii_returned.val) IN
       /\ pii_returned' = r
       /\ pii_store' = r.store
    /\ redacts' = redacts + 1
    /\ alias_calls' = alias_calls + 1
    /\ UNCHANGED pii_held
    /\ UNCHANGED <<dta_vars, pii_vars, dev_vars, init_vars, req_vars, load_vars>>
    /\ UNCHANGED <<zdev_vars, sensor_vars, export_vars>>

\* held[key] = x or held[key] = [x], x an object the caller got hold of: the
\* value returned, one in its tree, or one inside these
Install ==
    /\ redacts < MaxRedacts
    /\ pii_returned.st = "ok"
    /\ \E o \in ObjectsIn(pii_store, pii_held) \cup ObjectsIn(pii_store, pii_returned.val) :
       \E x \in {Ref(o), PyList(<<Ref(o)>>)} :
       \E key \in {"info", "password"} :
          /\ ~HasKey(pii_held, key)
          /\ pii_held' = PyDict(Append(pii_held.d, Item(key, x)))
    /\ UNCHANGED <<pii_store, pii_returned, redacts, alias_calls>>
    /\ UNCHANGED <<dta_vars, pii_vars, dev_vars, init_vars, req_vars, load_vars>>
    /\ UNCHANGED <<zdev_vars, sensor_vars, export_vars>>

NextShared == FilterHeld \/ FilterReturned \/ Install

SpecShared == InitShared /\ [][NextShared]_vars

----------------------------------------------------------------------------
(* Specification of the exporter: main, from the parsed arguments to its   *)
(* end, for ranges of up to MaxPeriods periods                             *)

MaxPeriods == 3

FromTimes == {0, 59}

Periods == {"none", "hourly", "daily"}

\* to - from: a second short of, exactly, and a second over each number of
\* periods up to MaxPeriods
RangesOf(period) ==
    {k * period_of(period) + off : k \in 0..MaxPeriods, off \in {-1, 0, 1}}

InitExport ==
    /\ from_datetime \in FromTimes
    /\ arg_period \in Periods
    /\ \E d \in RangesOf(arg_period) : to_datetime = from_datetime + d
    /\ dt_to = 0
    /\ dt_delta = 0
    /\ dt_ifrom = 0
    /\ dt_ito = 0
    /\ exported = <<>>
    /\ pc = "main"
    /\ pii_data = PyNone
    /\ pii_result = PiiNotCalled
    /\ pii_again = PiiNotCalled
    /\ delta_time_array = PyNone
    /\ sort = TRUE
    /\ reverse = FALSE
    /\ filter_duplicates = "unset"
    /\ dta_result = NotCalled
    /\ dta_after = delta_time_array
    /\ dta_again = NotCalled
    /\ response = NoResponse
    /\ devices_result = DevicesNotCalled
    /\ NotConstructing
    /\ NotRequesting
    /\ NotUpdating
    /\ NotSensing
    /\ NotAliasing

ExportIdle ==
    UNCHANGED <<dta_vars, pii_vars, dev_vars, init_vars, req_vars, load_vars,
                zdev_vars, sensor_vars, alias_vars>>

\* dt_delta = dt_to - dt_from; if args.exclusive_to: dt_to -= 1 second
Begin ==
    /\ pc = "main"
    /\ dt_delta' = to_datetime - from_datetime
    /\ dt_to' = IF exclusive_to THEN to_datetime - timedelta(0, 1) ELSE to_datetime
    /\ pc' = "branch"
    /\ UNCHANGED <<from_datetime, to_datetime, arg_period, dt_ifrom, dt_ito, exported>>
    /\ ExportIdle

\* if args.period is None: export_data(dt_from, dt_to, ...), which returns
\* or raises
ExportRange ==
    /\ pc = "branch"
    /\ arg_period = "none"
    /\ exported' = Append(exported, <<from_datetime, dt_to>>)
    /\ pc' \in {"done", "aborted"}
    /\ UNCHANGED <<from_datetime, to_datetime, arg_period, dt_to, dt_delta, dt_ifrom, dt_ito>>
    /\ ExportIdle

\* if dt_delta < timedelta(hours=...): raise ValueError
Refuse ==
    /\ pc = "branch"
    /\ arg_period # "none"
    /\ dt_delta < period_of(arg_period)
    /\ pc' = "ValueError"
    /\ UNCHANGED <<from_datetime, to_datetime, arg_period, dt_to, dt_delta, dt_ifrom, dt_ito,
                   exported>>
    /\ ExportIdle

\* dt_ifrom = dt_from; while True:
Enter ==
    /\ pc = "branch"
    /\ arg_period # "none"
    /\ ~(dt_delta < period_of(arg_period))
    /\ dt_ifrom' = from_datetime
    /\ pc' = "export"
    /\ UNCHANGED <<from_datetime, to_datetime, arg_period, dt_to, dt_delta, dt_ito, exported>>
    /\ ExportIdle

\* dt_ito = dt_ifrom + period - 1 second; export_data(dt_ifrom, dt_ito, ...),
\* which returns or raises
Export ==
    /\ pc = "export"
    /\ dt_ito' = window_end(dt_ifrom, arg_period)
    /\ exported' = Append(exported, <<dt_ifrom, dt_ito'>>)
    /\ pc' \in {"advance", "aborted"}
    /\ UNCHANGED <<from_datetime, to_datetime, arg_period, dt_to, dt_delta, dt_ifrom>>
    /\ ExportIdle

\* dt_ifrom = dt_ito + 1 second; dt_ito = dt_ifrom + period - 1 second;
\* if dt_ito > dt_to: break
Advance ==
    /\ pc = "advance"
    /\ dt_ifrom' = dt_ito + timedelta(0, 1)
    /\ dt_ito' = window_end(dt_ifrom', arg_period)
    /\ pc' = IF dt_ito' > dt_to THEN "done" ELSE "export"
    /\ UNCHANGED <<from_datetime, to_datetime, arg_period, dt_to, dt_delta, exported>>
    /\ ExportIdle

NextExport == Begin \/ ExportRange \/ Refuse \/ Enter \/ Export \/ Advance

SpecExport == InitExport /\ [][NextExport]_vars

\* main runs on: no statement of it waits for anything
SpecExportFair == SpecExport /\ WF_vars(NextExport)

----------------------------------------------------------------------------
(* Claims about the decoder, under SpecDecode *)

DecodeCalled == dta_result # NotCalled

\* The call was made without the filter_duplicates keyword
PlainCall == DecodeCalled /\ filter_duplicates = "unset"

Elements == delta_time_array.l

IsPoint(e) == e.k = "list"

\* The leading field of point e reads as an integer
HasLead(e) == IsPoint(e) /\ e.l # <<>> /\ PyIntOf(e.l[1]).st = "ok"

Lead(e) == PyIntOf(e.l[1]).val.n

\* The indices of the points that are emitted, in input order
RECURSIVE EmittedFrom(_, _)
EmittedFrom(elems, i) ==
    IF i > Len(elems) THEN <<>>
    ELSE IF Lead(elems[i]) # 0 THEN <<i>> \o EmittedFrom(elems, i + 1)
    ELSE EmittedFrom(elems, i + 1)

\* The index of the most recent anchor at or before point i, 0 when none
AnchorOf(elems, i) ==
    LET anchors == {a \in 1..i : Lead(elems[a]) > 0}
    IN  IF anchors = {} THEN 0
        ELSE CHOOSE a \in anchors : \A b \in anchors : b <= a

\* The sum of the absolute values of the negative leading values of the
\* points after a up to and including i
RECURSIVE SumOfDeltas(_, _, _)
SumOfDeltas(elems, a, i) ==
    IF i <= a THEN 0
    ELSE SumOfDeltas(elems, a, i - 1)
         + (IF Lead(elems[i]) < 0 THEN 0 - Lead(elems[i]) ELSE 0)

Bijections(n) ==
    {p \in [1..n -> 1..n] : \A i, j \in 1..n : i # j => p[i] # p[j]}

\* C1: every emitted point's timestamp is the most recent anchor at or before
\* the point plus the sum of the absolute values of the negative leading
\* values after that anchor up to the point: position by position when
\* sort is false, and under a one-to-one matching of the emitted points with
\* the output when the output is sorted.
C1_StampIsAnchorPlusDeltas ==
    (PlainCall /\ dta_result.st = "ok") =>
        LET out == dta_result.val.l
            emitted == EmittedFrom(Elements, 1)
        IN  /\ Len(out) = Len(emitted)
            /\ \E p \in Bijections(Len(out)) :
                  /\ ~sort => \A j \in 1..Len(out) : p[j] = j
                  /\ \A j \in 1..Len(out) :
                        AnchorOf(Elements, emitted[j]) # 0 =>
                            out[p[j]].l[1] =
                                PyInt(Lead(Elements[AnchorOf(Elements, emitted[j])])
                                      + SumOfDeltas(Elements,
                                                    AnchorOf(Elements, emitted[j]),
                                                    emitted[j]))

\* C1 witness: a decoded series of an anchor and two deltas of different size
C1_Witness ==
    /\ PlainCall /\ dta_result.st = "ok" /\ ~sort
    /\ Len(Elements) = 3
    /\ Lead(Elements[1]) > 0
    /\ Lead(Elements[2]) < 0
    /\ Lead(Elements[3]) < 0
    /\ Lead(Elements[2]) # Lead(Elements[3])

\* What the spec's duplicate filter keeps of the points in decode order: a
\* point is dropped when its timestamp is that of the point kept before it.
RECURSIVE KeepFirstOfRun(_, _)
KeepFirstOfRun(points, kept) ==
    IF points = <<>> THEN kept
    ELSE IF kept # <<>> /\ kept[Len(kept)].l[1] = Head(points).l[1]
    THEN KeepFirstOfRun(Tail(points), kept)
    ELSE KeepFirstOfRun(Tail(points), Append(kept, Head(points)))

\* C2: with filter_duplicates=True the call returns the decoded points
\* without those whose timestamp equals that of the point emitted before
\* them (sorted when sort is set).
C2_AdjacentDuplicatesDropped ==
    LET decoded == convert_delta_time_array(delta_time_array, FALSE, FALSE)
        kept == KeepFirstOfRun(decoded.val.l, <<>>)
    IN  (DecodeCalled /\ filter_duplicates = "True" /\ decoded.st = "ok") =>
            /\ dta_result.st = "ok"
            /\ dta_result.val = PyList(IF sort THEN sorted(kept, reverse) ELSE kept)

IsZeroPoint(e) == HasLead(e) /\ Lead(e) = 0

RECURSIVE WithoutZeroPoints(_)
WithoutZeroPoints(elems) ==
    IF elems = <<>> THEN <<>>
    ELSE IF IsZeroPoint(Head(elems)) THEN WithoutZeroPoints(Tail(elems))
    ELSE <<Head(elems)>> \o WithoutZeroPoints(Tail(elems))

\* C3: a point whose leading value is 0 is never emitted and changes
\* nothing: the call ends as the call on the series without its
\* zero-leading points ends, and it returns one point for each point of the
\* series whose leading value is not 0.
C3_ZeroPointsChangeNothing ==
    (PlainCall /\ delta_time_array.k = "list") =>
        /\ dta_result = convert_delta_time_array(
                            PyList(WithoutZeroPoints(Elements)), sort, reverse)
        /\ dta_result.st = "ok" =>
               Len(dta_result.val.l) = Len(WithoutZeroPoints(Elements))

\* C3 witness: a zero-leading point between an anchor and a delta
C3_Witness ==
    /\ PlainCall /\ dta_result.st = "ok"
    /\ Len(Elements) = 3
    /\ Lead(Elements[1]) > 0
    /\ Lead(Elements[2]) = 0
    /\ Lead(Elements[3]) < 0
    /\ Len(dta_result.val.l) = 2

\* C9: a series that is no list, or that holds an element that is no list,
\* fails with ValueError and returns nothing.
C9_NotAListIsValueError ==
    (/\ PlainCall
     /\ \/ delta_time_array.k # "list"
        \/ \E i \in DOMAIN Elements : ~IsPoint(Elements[i])) =>
        dta_result.st = "ValueError" /\ dta_result.val = PyNone

\* C9, where no point before the first element that is no list has an
\* unreadable leading field: the failure is the ValueError.
C9_ValueErrorAfterReadablePoints ==
    (/\ PlainCall
     /\ \/ delta_time_array.k # "list"
        \/ \E i \in DOMAIN Elements :
              /\ ~IsPoint(Elements[i])
              /\ \A j \in 1..(i - 1) : HasLead(Elements[j])) =>
        dta_result.st = "ValueError" /\ dta_result.val = PyNone

\* C10: a point whose leading field cannot be read as an integer (the first
\* malformed element of the series) fails with ValueError.
C10_UnreadableLeadIsValueError ==
    (/\ PlainCall
     /\ delta_time_array.k = "list"
     /\ \E i \in DOMAIN Elements :
           /\ IsPoint(Elements[i]) /\ ~HasLead(Elements[i])
           /\ \A j \in 1..(i - 1) : HasLead(Elements[j])) =>
        dta_result.st = "ValueError"

----------------------------------------------------------------------------
(* Claims about the order, the number and the content of the decoded       *)
(* points, under SpecDecode                                                *)

\* The call returned, without the filter_duplicates keyword
Decoded == PlainCall /\ dta_result.st = "ok"

Out == dta_result.val.l

Stamp(point) == point.l[1].n

\* The running timestamp at point i: that of the most recent anchor, 0 when
\* there is none, plus the absolute deltas since
ExpectedStamp(elems, i) ==
    (IF AnchorOf(elems, i) = 0 THEN 0 ELSE Lead(elems[AnchorOf(elems, i)]))
    + SumOfDeltas(elems, AnchorOf(elems, i), i)

\* The emitted points in decode order
DecodeOrder ==
    LET emitted == EmittedFrom(Elements, 1)
    IN  [j \in 1..Len(emitted) |->
            PyList(<<PyInt(ExpectedStamp(Elements, emitted[j]))>>
                   \o Tail(Elements[emitted[j]].l))]

Count(seq, x) == Cardinality({i \in DOMAIN seq : seq[i] = x})

\* a is a permutation of b
SameBag(a, b) ==
    /\ Len(a) = Len(b)
    /\ \A i \in DOMAIN a : Count(a, a[i]) = Count(b, a[i])

\* C11: with sort=False the output is the emitted points in decode order,
\* whatever reverse is; with sort=True it is a permutation of them whose
\* timestamps are non-decreasing when reverse=False and non-increasing when
\* reverse=True.
C11_OrderOfOutput ==
    Decoded =>
        /\ ~sort => Out = DecodeOrder
        /\ sort =>
              /\ SameBag(Out, DecodeOrder)
              /\ \A i \in 1..(Len(Out) - 1) :
                    IF reverse THEN Stamp(Out[i]) >= Stamp(Out[i + 1])
                               ELSE Stamp(Out[i]) <= Stamp(Out[i + 1])

\* C11 witness: a series decoded out of timestamp order and returned in
\* descending order
C11_Witness ==
    /\ Decoded /\ sort /\ reverse
    /\ Len(Out) = 3
    /\ Stamp(Out[1]) > Stamp(Out[3])
    /\ Out # DecodeOrder
    /\ \E i \in 1..2 : Stamp(DecodeOrder[i]) < Stamp(DecodeOrder[i + 1])

\* The points of seq whose timestamp is t, in their order in seq
WithStamp(seq, t) ==
    LET at(point) == Stamp(point) = t IN SelectSeq(seq, at)

\* C12: with sort=True the points of equal timestamp are in the output in
\* their decode order, with reverse=False and with reverse=True.
C12_SortIsStable ==
    (Decoded /\ sort) =>
        \A i \in DOMAIN DecodeOrder :
            WithStamp(Out, Stamp(DecodeOrder[i]))
                = WithStamp(DecodeOrder, Stamp(DecodeOrder[i]))

\* C12 witness: two different points of one timestamp, sorted in descending
\* order behind a point that was decoded after them
C12_Witness ==
    /\ Decoded /\ sort /\ reverse
    /\ Len(DecodeOrder) = 3
    /\ Stamp(DecodeOrder[1]) = Stamp(DecodeOrder[2])
    /\ DecodeOrder[1] # DecodeOrder[2]
    /\ Stamp(DecodeOrder[3]) > Stamp(DecodeOrder[1])
    /\ Out = <<DecodeOrder[3], DecodeOrder[1], DecodeOrder[2]>>

\* C13: with filter_duplicates=True two points of one timestamp that are
\* separated in decode order by an emitted point of another timestamp are
\* both in the output, also when sort=True puts them next to each other.
C13_SeparatedDuplicatesKept ==
    LET decoded == convert_delta_time_array(delta_time_array, FALSE, FALSE)
        points == decoded.val.l
    IN  (/\ DecodeCalled /\ filter_duplicates = "True" /\ decoded.st = "ok"
         /\ \E i, j \in DOMAIN points :
               /\ i + 1 < j
               /\ Stamp(points[i]) = Stamp(points[j])
               /\ \E m \in (i + 1)..(j - 1) : Stamp(points[m]) # Stamp(points[i])) =>
            /\ dta_result.st = "ok"
            /\ \A i, j \in DOMAIN points :
                  (/\ i + 1 < j
                   /\ Stamp(points[i]) = Stamp(points[j])
                   /\ \E m \in (i + 1)..(j - 1) : Stamp(points[m]) # Stamp(points[i])) =>
                      Count(dta_result.val.l, points[i]) >= 1
                      /\ Count(dta_result.val.l, points[j]) >= 1
                      /\ (points[i] = points[j] =>
                             Count(dta_result.val.l, points[i]) >= 2)

\* The index of the first anchor of the series, Len + 1 when it has none
FirstAnchor(elems) ==
    LET anchors == {a \in DOMAIN elems : Lead(elems[a]) > 0}
    IN  IF anchors = {} THEN Len(elems) + 1
        ELSE CHOOSE a \in anchors : \A b \in anchors : a <= b

\* The timestamps the claim gives the points up to and including the first
\* anchor: the running sum of the absolute deltas from 0, then the anchor
RECURSIVE LeadingRun(_, _, _)
LeadingRun(elems, i, running) ==
    IF i > Len(elems) THEN <<>>
    ELSE IF Lead(elems[i]) > 0 THEN <<Lead(elems[i])>>
    ELSE IF Lead(elems[i]) = 0 THEN LeadingRun(elems, i + 1, running)
    ELSE <<running - Lead(elems[i])>>
         \o LeadingRun(elems, i + 1, running - Lead(elems[i]))

Stamps(seq) == [i \in DOMAIN seq |-> Stamp(seq[i])]

\* C14: the points before any anchor have the cumulative sums of the
\* absolute deltas from 0 as timestamps, and the first anchor after them has
\* its own value: the first points of the output when sort=False, and points
\* of the output when it is sorted.
C14_DeltasBeforeAnchorStartAtZero ==
    Decoded =>
        LET run == LeadingRun(Elements, 1, 0) IN
        /\ Len(run) <= Len(Out)
        /\ ~sort => SubSeq(Stamps(Out), 1, Len(run)) = run
        /\ sort => \A i \in DOMAIN run : Count(Stamps(Out), run[i]) >= Count(run, run[i])

\* C14 witness: two deltas, then an anchor smaller than their sum
C14_Witness ==
    /\ Decoded /\ ~sort
    /\ Len(Elements) = 3
    /\ Lead(Elements[1]) < 0 /\ Lead(Elements[2]) < 0 /\ Lead(Elements[3]) > 0
    /\ Stamps(Out) = <<0 - Lead(Elements[1]),
                       0 - Lead(Elements[1]) - Lead(Elements[2]),
                       Lead(Elements[3])>>
    /\ Stamp(Out[3]) < Stamp(Out[2])

\* C15: without filter_duplicates the call on a series of readable points
\* returns as many points as the series has points with a non-zero leading
\* value, repeated timestamps included, and the empty series gives the
\* empty series.
C15_NoPointDropped ==
    (/\ PlainCall /\ delta_time_array.k = "list"
     /\ \A i \in DOMAIN Elements : HasLead(Elements[i])) =>
        /\ dta_result.st = "ok"
        /\ Len(Out) = Cardinality({i \in DOMAIN Elements : Lead(Elements[i]) # 0})
        /\ Elements = <<>> => dta_result = Returned(PyList(<<>>))

\* C15 witness: an anchor given twice and a delta, all three emitted, two
\* of them equal
C15_Witness ==
    /\ Decoded
    /\ Len(Elements) = 3
    /\ Elements[1] = Elements[2]
    /\ Lead(Elements[1]) > 0
    /\ Lead(Elements[3]) < 0
    /\ Len(Out) = 3
    /\ Out[1] = Out[2]

Payload(point) == Tail(point.l)

\* C16: each decoded point is an int timestamp followed by the payload of
\* its input point, element for element; a point without payload decodes to
\* a point of one element.
C16_PayloadCopied ==
    Decoded =>
        LET emitted == EmittedFrom(Elements, 1)
            payloads == [j \in DOMAIN emitted |-> Payload(Elements[emitted[j]])]
        IN  /\ Len(Out) = Len(emitted)
            /\ \A j \in DOMAIN Out : Out[j].k = "list" /\ Out[j].l[1].k = "int"
            /\ ~sort => \A j \in DOMAIN Out : Payload(Out[j]) = payloads[j]
            /\ sort => SameBag([j \in DOMAIN Out |-> Payload(Out[j])], payloads)

\* C16 witness: a delta with a payload of a zero and a nested sequence of a
\* negative, and an anchor without payload
C16_Witness ==
    /\ Decoded /\ ~sort
    /\ Len(Elements) = 2
    /\ Lead(Elements[1]) < 0
    /\ Payload(Elements[1]) = <<PyInt(0), PyList(<<PyInt(-1)>>)>>
    /\ Payload(Out[1]) = Payload(Elements[1])
    /\ Elements[2].l = <<PyInt(2)>>
    /\ Out[2].l = <<PyInt(2)>>

----------------------------------------------------------------------------
(* Claims about the decoder's effects, under SpecDecodeTwice *)

----------------------------------------------------------------------------
(* Claims about the redactor, under SpecRedact *)

RedactCalled == pii_result # PiiNotCalled

IsScalar(v) == v.k # "dict" /\ v.k # "list"

\* Item i of mapping m short-circuits: a sensitive mapping key whose value
\* is a mapping, or a sensitive sequence key whose value is a sequence
ShortCircuitsAt(m, i) ==
    \/ m.d[i].val.k = "dict" /\ m.d[i].key \in pii_dicts_keys
    \/ m.d[i].val.k = "list" /\ m.d[i].key \in pii_lists_keys

\* The first item of mapping m that short-circuits, 0 when none does
ShortCircuitIndex(m) ==
    LET matching == {i \in DOMAIN m.d : ShortCircuitsAt(m, i)}
    IN  IF matching = {} THEN 0
        ELSE CHOOSE i \in matching : \A j \in matching : i <= j

SubstituteAt(m, i) ==
    IF m.d[i].val.k = "dict" THEN pii_dicts(m.d[i].key) ELSE pii_lists(m.d[i].key)

\* C4: filter_pii never raises, and returns a scalar or a null unchanged.
C4_NeverRaises ==
    RedactCalled =>
        /\ pii_result.st = "ok"
        /\ IsScalar(pii_data) => pii_result.val = pii_data

\* C4, for the trees that hold no sequence at the top and no sequence
\* directly inside a sequence, does hold.
RECURSIVE HasListInList(_)
HasListInList(v) ==
    \/ v.k = "list" /\ \E i \in DOMAIN v.l : v.l[i].k = "list" \/ HasListInList(v.l[i])
    \/ v.k = "dict" /\ \E i \in DOMAIN v.d : HasListInList(v.d[i].val)

C4_NoRaiseWithoutListInList ==
    (RedactCalled /\ pii_data.k # "list" /\ ~HasListInList(pii_data)) =>
        /\ pii_result.st = "ok"
        /\ IsScalar(pii_data) => pii_result.val = pii_data

\* C6: for a mapping with a key that short-circuits, filter_pii returns the
\* substitute of (the first such) key and nothing else, and leaves the
\* siblings after that key as they were.
C6_ShortCircuitReturnsSubstitute ==
    (RedactCalled /\ pii_data.k = "dict" /\ ShortCircuitIndex(pii_data) # 0) =>
        LET i == ShortCircuitIndex(pii_data) IN
        /\ pii_result.st = "ok"
        /\ pii_result.val = SubstituteAt(pii_data, i)
        /\ \A j \in i..Len(pii_data.d) : pii_result.data.d[j] = pii_data.d[j]

\* C6, when the call returns at all
C6_ShortCircuitWhenReturning ==
    (/\ RedactCalled /\ pii_data.k = "dict" /\ ShortCircuitIndex(pii_data) # 0
     /\ pii_result.st = "ok") =>
        LET i == ShortCircuitIndex(pii_data) IN
        /\ pii_result.val = SubstituteAt(pii_data, i)
        /\ \A j \in i..Len(pii_data.d) : pii_result.data.d[j] = pii_data.d[j]

\* C7: filter_pii of the value filter_pii returned returns that value.
C7_Idempotent ==
    pii_again # PiiNotCalled =>
        /\ pii_again.st = "ok"
        /\ pii_again.val = pii_result.val

\* C7 witness: the second pass ran on a tree in which the first pass
\* installed the substitute of a nested short-circuit
C7_Witness ==
    /\ pii_again # PiiNotCalled
    /\ pii_result.val # pii_data
    /\ pii_result.val.k = "dict"
    /\ \E i \in DOMAIN pii_result.val.d :
          pii_result.val.d[i].val = pii_dicts("sim_id")

\* The tree the call leaves: the value returned, or the argument as the
\* call left it when it raised
TreeAfter == IF pii_result.st = "ok" THEN pii_result.val ELSE pii_result.data

\* In tree after, every scalar that before stands under a sensitive scalar
\* key, outside any mapping that short-circuits, is the mask token, and a
\* mapping or sequence under such a key is still a mapping or sequence.
RECURSIVE MaskedIn(_, _)
MaskedIn(before, after) ==
    IF before.k = "dict"
    THEN \/ ShortCircuitIndex(before) # 0
         \/ /\ after.k = "dict"
            /\ Len(after.d) = Len(before.d)
            /\ \A i \in DOMAIN before.d :
                  LET k == before.d[i].key
                      v == before.d[i].val
                      w == after.d[i].val
                  IN  /\ after.d[i].key = k
                      /\ (IsScalar(v) /\ k \in pii_keys) => w = MaskToken
                      /\ ~IsScalar(v) => MaskedIn(v, w)
    ELSE IF before.k = "list"
    THEN /\ after.k = "list"
         /\ Len(after.l) = Len(before.l)
         /\ \A i \in DOMAIN before.l : MaskedIn(before.l[i], after.l[i])
    ELSE TRUE

\* C8: after filter_pii every scalar under a sensitive scalar key is "***"
\* wherever the key occurs, unless an enclosing mapping short-circuits, and a
\* mapping or sequence under such a key is recursed into, not masked.
C8_SensitiveScalarsMasked ==
    RedactCalled => MaskedIn(pii_data, TreeAfter)

\* C8, when the call returns at all
C8_MaskedWhenReturning ==
    (RedactCalled /\ pii_result.st = "ok") => MaskedIn(pii_data, pii_result.val)

\* Mapping m has no sensitive mapping key and no sensitive sequence key at
\* its own level
NoSubstitutedKey(m) ==
    \A i \in DOMAIN m.d : m.d[i].key \notin (pii_dicts_keys \cup pii_lists_keys)

\* Mapping after has the keys of mapping before, its scalars under
\* non-sensitive keys, and its lists with their length and their scalar
\* elements in place.
ShapeKept(before, after) ==
    /\ after.k = "dict"
    /\ [i \in DOMAIN after.d |-> after.d[i].key]
          = [i \in DOMAIN before.d |-> before.d[i].key]
    /\ \A i \in DOMAIN before.d :
          LET k == before.d[i].key
              v == before.d[i].val
              w == after.d[i].val
          IN  /\ (IsScalar(v) /\ k \notin pii_keys) => w = v
              /\ v.k = "list" =>
                    /\ w.k = "list"
                    /\ Len(w.l) = Len(v.l)
                    /\ \A j \in DOMAIN v.l : IsScalar(v.l[j]) => w.l[j] = v.l[j]

\* C18: for a mapping with no sensitive mapping key and no sensitive
\* sequence key at its own level, filter_pii returns that mapping, with the
\* same keys, every scalar under a non-sensitive key unchanged, and every
\* list of the same length and element order.
C18_ShapeKeptOutsideMatches ==
    (RedactCalled /\ pii_data.k = "dict" /\ NoSubstitutedKey(pii_data)) =>
        /\ pii_result.st = "ok"
        /\ pii_result.val = pii_result.data
        /\ ShapeKept(pii_data, pii_result.val)

\* C18, when the call returns at all
C18_ShapeKeptWhenReturning ==
    (/\ RedactCalled /\ pii_data.k = "dict" /\ NoSubstitutedKey(pii_data)
     /\ pii_result.st = "ok") =>
        /\ pii_result.val = pii_result.data
        /\ ShapeKept(pii_data, pii_result.val)

----------------------------------------------------------------------------
(* Claims about the device listing, under SpecDevices *)

\* No unredacted PII at any depth of v
RECURSIVE NoUnredactedPII(_)
NoUnredactedPII(v) ==
    IF v.k = "dict"
    THEN \A i \in DOMAIN v.d :
            LET k == v.d[i].key
                w == v.d[i].val
            IN  /\ (IsScalar(w) /\ k \in pii_keys) => w = MaskToken
                /\ (w.k = "dict" /\ k \in pii_dicts_keys) => w = GetItem(pii_dicts(k), k)
                /\ (w.k = "list" /\ k \in pii_lists_keys) => w = GetItem(pii_lists(k), k)
                /\ NoUnredactedPII(w)
    ELSE IF v.k = "list"
    THEN \A i \in DOMAIN v.l : NoUnredactedPII(v.l[i])
    ELSE TRUE

\* C5: the data of every device get_devices returns holds no unredacted PII
\* at any depth, the top level of the record included.
C5_DevicesHoldNoPII ==
    devices_result.st = "ok" =>
        \A i \in DOMAIN devices_result.val : NoUnredactedPII(devices_result.val[i].data)

\* C5, for the records with no sensitive mapping or sequence key at the top
C5_NoPIIBelowTheTop ==
    devices_result.st = "ok" =>
        \A i \in DOMAIN devices_result.val :
            ShortCircuitIndex(GetItem(response.json, "devices").l[i]) = 0 =>
                NoUnredactedPII(devices_result.val[i].data)

----------------------------------------------------------------------------
(* Claims about the construction, under SpecConstruct *)

\* The characters of the first line of a file, without its newline
FirstLine(chars) ==
    LET ends == {i \in DOMAIN chars : chars[i] = "\n"}
        n == IF ends = {} THEN Len(chars) + 1
             ELSE CHOOSE i \in ends : \A j \in ends : i <= j
    IN  SubSeq(chars, 1, n - 1)

\* The variable names a file
NamesFile(file_var) == environ[file_var] # PyNone /\ environ[file_var].s # <<>>

FileNamed(file_var) == files[environ[file_var].s[1]]

\* What the three sources give, in the order of their precedence: the
\* argument, the variable, the first line of the file the file variable names
Sources(arg, var, file_var) ==
    <<arg, environ[var],
      IF NamesFile(file_var) /\ FileNamed(file_var).exists
      THEN PyStr(FirstLine(FileNamed(file_var).chars))
      ELSE PyNone>>

Given(v) == v # PyNone /\ v.s # <<>>

\* The first of the sources that gives a value, None when none does
FirstGiven(sources) ==
    IF \A i \in DOMAIN sources : ~Given(sources[i]) THEN PyNone
    ELSE sources[CHOOSE i \in DOMAIN sources :
                     /\ Given(sources[i])
                     /\ \A j \in 1..(i - 1) : ~Given(sources[j])]

TokenFound == FirstGiven(Sources(arg_token, "ZONT_API_TOKEN", "ZONT_API_TOKEN_FILE"))

ClientFound ==
    FirstGiven(Sources(arg_client, "ZONT_API_CLIENT", "ZONT_API_CLIENT_FILE"))

\* The construction comes to the file the variable names, and there is no
\* such file
ReadsMissingFile(arg, var, file_var) ==
    /\ ~Given(arg) /\ ~Given(environ[var])
    /\ NamesFile(file_var) /\ ~FileNamed(file_var).exists

----------------------------------------------------------------------------
(* Claims about api_request, under SpecRequest *)

\* The answer is a mapping whose ok field is missing or false
NotOk ==
    /\ ~response.raises
    /\ response.json.k = "dict"
    /\ \A i \in DOMAIN response.json.d :
          response.json.d[i].key = "ok" => response.json.d[i].val = PyBool(FALSE)

ErrorField ==
    LET given == {i \in DOMAIN response.json.d : response.json.d[i].key = "error"}
    IN  IF given = {} THEN PyNone
        ELSE response.json.d[CHOOSE i \in given : TRUE].val

\* C20: api_request raises ZontAPIException for an answer whose ok field is
\* missing or false, with status 403 for the error auth_failed, 404 for
\* no_such_device and 500 otherwise, the message "API call to <route>
\* failed" when the answer has no error field; and for an exception of the
\* transport or of the JSON decoding, with status 500 and the message "API
\* call failed".
C20_FailuresAreZontAPIExceptions ==
    api_result # ApiNotCalled =>
        /\ response.raises =>
              /\ api_result.st = "ZontAPIException"
              /\ api_result.code = 500
              /\ api_result.msg = PyStr(<<"API call failed">>)
        /\ NotOk =>
              /\ api_result.st = "ZontAPIException"
              /\ api_result.code =
                    (IF ErrorField = PyStr(<<"auth_failed">>) THEN 403
                     ELSE IF ErrorField = PyStr(<<"no_such_device">>) THEN 404
                     ELSE 500)
              /\ ErrorField = PyNone =>
                    api_result.msg = PyStr(<<"API call to " \o route \o " failed">>)
              /\ ErrorField # PyNone => api_result.msg = ErrorField

\* C20 witness: the answer {"ok": false, "error": "no_such_device"} to
\* /load_data raised with status 404
C20_Witness ==
    /\ api_result.st = "ZontAPIException"
    /\ route = "/load_data"
    /\ NotOk
    /\ ErrorField = PyStr(<<"no_such_device">>)
    /\ api_result.code = 404

----------------------------------------------------------------------------
(* Claims about the devices get_devices makes, under SpecDevices *)

DevicesCalled == devices_result # DevicesNotCalled

\* The service answers ok: a mapping whose ok field is true
AnswersOk ==
    /\ ~response.raises
    /\ response.json.k = "dict"
    /\ HasKey(response.json, "ok")
    /\ GetItem(response.json, "ok") = PyBool(TRUE)

\* C21: get_devices returns the empty list, and does not raise, for a null
\* body and for an ok answer whose devices field is missing, null, an empty
\* list, or no list.
C21_NoDevicesIsEmptyList ==
    (/\ DevicesCalled
     /\ \/ ~response.raises /\ response.json = PyNone
        \/ /\ AnswersOk
           /\ \/ ~HasKey(response.json, "devices")
              \/ GetItem(response.json, "devices") = PyNone
              \/ GetItem(response.json, "devices") = PyList(<<>>)
              \/ GetItem(response.json, "devices").k # "list") =>
        devices_result = DevicesReturned(<<>>)

\* C21 witness: an ok answer whose devices field is a mapping
C21_Witness ==
    /\ DevicesCalled
    /\ AnswersOk
    /\ HasKey(response.json, "devices")
    /\ GetItem(response.json, "devices").k = "dict"
    /\ GetItem(response.json, "devices").d # <<>>
    /\ devices_result = DevicesReturned(<<>>)

\* The answer lists records: ok, with a devices field that is a list of at
\* least one record
ListsRecords ==
    /\ AnswersOk
    /\ HasKey(response.json, "devices")
    /\ GetItem(response.json, "devices").k = "list"
    /\ GetItem(response.json, "devices").l # <<>>

Records == GetItem(response.json, "devices").l

LacksId(record) == record.k # "dict" \/ ~HasKey(record, "id")

LacksName(record) == record.k # "dict" \/ ~HasKey(record, "name")

\* What the claim gives for the records: the exception of the first record
\* without id or name, the id checked first, or one device per record
DevicesOrException ==
    LET lacking == {i \in DOMAIN Records : LacksId(Records[i]) \/ LacksName(Records[i])}
    IN  IF lacking # {}
        THEN LET i == CHOOSE j \in lacking : \A m \in lacking : j <= m IN
             /\ devices_result.st = "ZontAPIException"
             /\ devices_result.msg =
                   (IF LacksId(Records[i]) THEN PyStr(<<"device must have an ID">>)
                    ELSE PyStr(<<"device must have a name">>))
             /\ devices_result.val = <<>>
        ELSE /\ devices_result.st = "ok"
             /\ Len(devices_result.val) = Len(Records)
             /\ \A i \in DOMAIN Records :
                   /\ devices_result.val[i].id = GetItem(Records[i], "id")
                   /\ devices_result.val[i].name = GetItem(Records[i], "name")

\* C22: a record without id raises ZontAPIException "device must have an
\* ID", one with id and without name "device must have a name"; get_devices
\* raises it and returns no list when a record of the answer lacks id or
\* name, and otherwise returns one device per record, in the order of the
\* answer, with the id and name of the record.
C22_DeviceForRecordWithIdAndName ==
    (DevicesCalled /\ ListsRecords) => DevicesOrException

\* C22, for the answers none of whose records holds a sequence directly
\* inside a sequence
C22_WhereRedactionReturns ==
    (/\ DevicesCalled /\ ListsRecords
     /\ \A i \in DOMAIN Records : ~HasListInList(Records[i])) => DevicesOrException

----------------------------------------------------------------------------
(* Claims about load_data, under SpecLoadData *)

LoadCalled == load_result # ApiNotCalled

\* api_request returned the body: a mapping whose ok field is true
BodyIsOk ==
    /\ ~response.raises
    /\ response.json.k = "dict"
    /\ HasKey(response.json, "ok")
    /\ GetItem(response.json, "ok") = PyBool(TRUE)

\* The responses list of the body, empty when the body has none
ResponseList ==
    IF HasKey(response.json, "responses") THEN GetItem(response.json, "responses")
    ELSE PyList(<<>>)

\* C23: a response load_data returns has the device_id asked for, an ok
\* field that is true and no timings key; for a body whose responses list is
\* empty or starts with an entry for another device, load_data raises
\* ZontAPIException "no data found" with status 404.
C23_ResponseIsForTheDevice ==
    LoadCalled =>
        /\ (load_result.st = "ok" /\ load_result.val # PyNone) =>
              /\ load_result.val.k = "dict"
              /\ HasKey(load_result.val, "device_id")
              /\ GetItem(load_result.val, "device_id") = load_device_id
              /\ HasKey(load_result.val, "ok")
              /\ GetItem(load_result.val, "ok") = PyBool(TRUE)
              /\ ~HasKey(load_result.val, "timings")
        /\ (/\ BodyIsOk
            /\ ResponseList.k = "list"
            /\ \/ ResponseList.l = <<>>
               \/ /\ ResponseList.l[1].k = "dict"
                  /\ \/ ~HasKey(ResponseList.l[1], "device_id")
                     \/ GetItem(ResponseList.l[1], "device_id") # load_device_id) =>
              /\ load_result.st = "ZontAPIException"
              /\ load_result.msg = PyStr(<<"no data found">>)
              /\ load_result.code = 404

\* C23 witness: a response for the device returned without the timings it
\* came with, from a body that also lists a response for another device
C23_Witness ==
    /\ LoadCalled
    /\ load_result.st = "ok"
    /\ load_result.val # PyNone
    /\ Len(ResponseList.l) = 2
    /\ HasKey(ResponseList.l[1], "timings")
    /\ ResponseList.l[2] # PyNone
    /\ HasKey(ResponseList.l[2], "device_id")
    /\ GetItem(ResponseList.l[2], "device_id") # load_device_id
    /\ load_result.val = DelItem(ResponseList.l[1], "timings")

\* C27: every call of load_data returns a response mapping, returns None,
\* or raises ZontAPIException, and nothing else, also for a null body.
C27_ThreeOutcomes ==
    LoadCalled =>
        \/ load_result.st = "ok" /\ load_result.val.k = "dict"
        \/ load_result.st = "ok" /\ load_result.val = PyNone
        \/ load_result.st = "ZontAPIException"

\* C27, for the bodies that are mappings with a responses list of mappings
C27_ThreeOutcomesForMappings ==
    (/\ LoadCalled
     /\ response.raises \/ response.json.k = "dict"
     /\ ~response.raises =>
           /\ ResponseList.k = "list"
           /\ ResponseList.l # <<>> => ResponseList.l[1].k = "dict") =>
        \/ load_result.st = "ok" /\ load_result.val.k = "dict"
        \/ load_result.st = "ok" /\ load_result.val = PyNone
        \/ load_result.st = "ZontAPIException"

----------------------------------------------------------------------------
(* Claims about update_info, under SpecUpdate *)

\* The step is a call of update_info that leaves data, last_seen and
\* last_seen_relative as they were
LeavesDeviceAlone ==
    /\ zdev'.data = zdev.data
    /\ zdev'.last_seen = zdev.last_seen
    /\ zdev'.last_seen_relative = zdev.last_seen_relative

UpdatedNow == updates > 0 /\ update_result = ApiReturned(PyBool(TRUE))

\* The first record of the answer with the id of the device
FirstOfId ==
    Records[CHOOSE i \in DOMAIN Records :
                /\ GetItem(Records[i], "id") = zdev.id
                /\ \A j \in 1..(i - 1) : GetItem(Records[j], "id") # zdev.id]

\* last_seen and last_seen_relative are those of the data of the device
SeenAsInData ==
    /\ zdev.last_seen =
          fromtimestamp(IF HasKey(zdev.data, "last_receive_time")
                        THEN GetItem(zdev.data, "last_receive_time") ELSE PyInt(0))
    /\ zdev.last_seen_relative =
          (IF HasKey(zdev.data, "last_receive_time_relative")
           THEN GetItem(zdev.data, "last_receive_time_relative") ELSE PyInt(-1))

\* data is record with its PII redacted: the same keys, the values under the
\* keys of no policy unchanged, and no unredacted PII
RedactedFrom(data, record) ==
    /\ data.k = "dict"
    /\ [i \in DOMAIN data.d |-> data.d[i].key] = [i \in DOMAIN record.d |-> record.d[i].key]
    /\ \A i \in DOMAIN record.d :
          record.d[i].key \notin (pii_keys \cup pii_dicts_keys \cup pii_lists_keys) =>
              data.d[i].val = record.d[i].val
    /\ NoUnredactedPII(data)

\* C25: when the list fetched has a device of the same id, update_info
\* returns True (C24 gives the other cases) and the data of the device is
\* the PII-redacted record of the first device of that id, with last_seen
\* and last_seen_relative computed from it.
C25_DataIsRedactedRecord ==
    UpdatedNow =>
        /\ ListsRecords
        /\ \E i \in DOMAIN Records : GetItem(Records[i], "id") = zdev.id
        /\ RedactedFrom(zdev.data, FirstOfId)
        /\ SeenAsInData

\* C25, leaving open whether the record fetched is redacted: the data is
\* that of the first device of the id that get_devices made
C25_DataIsFetchedRecord ==
    UpdatedNow =>
        LET fetched == get_devices(response).val
            same == {i \in DOMAIN fetched : fetched[i].id = zdev.id}
        IN  /\ same # {}
            /\ zdev.data = fetched[CHOOSE i \in same : \A j \in same : i <= j].data
            /\ HasKey(FirstOfId, "sim_id") \/ RedactedFrom(zdev.data, FirstOfId)
            /\ SeenAsInData

\* C28: after any calls of update_info, the id and name of the device are
\* those in its data.
C28_AttributesAgreeWithData ==
    /\ zdev.id = GetItem(zdev.data, "id")
    /\ zdev.name = GetItem(zdev.data, "name")

\* C28, of the id alone
C28_IdAgreesWithData == zdev.id = GetItem(zdev.data, "id")

----------------------------------------------------------------------------
(* Claims about get_sensor_name, under SpecSensors *)

SensorCalled == sensor_result # NotCalled

\* The families in the order the search is documented to take
FamilyOrder ==
    <<"analog_inputs", "analog_temperature_sensors", "boiler_adapters",
      "heating_circuits", "io_extensions", "radiosensors", "radiosensors433",
      "wired_temperature_sensors">>

Z3kConfig == GetItem(zdev.data, "z3k_config")

\* The entries of family f: none when the family is missing, null or no list
EntriesOf(f) ==
    LET source == DictGet(Z3kConfig, FamilyOrder[f], PyNone) IN
    IF source.k = "list" THEN source.l ELSE <<>>

\* The places <<f, j>> of the entries that are not null
SensorPlaces ==
    UNION {{<<f, j>> : j \in {i \in DOMAIN EntriesOf(f) : EntriesOf(f)[i] # PyNone}} :
           f \in DOMAIN FamilyOrder}

SensorAt(p) == EntriesOf(p[1])[p[2]]

\* The device has a z3k_config mapping in which every sensor has an id
SensorsHaveIds ==
    /\ HasKey(zdev.data, "z3k_config")
    /\ Z3kConfig.k = "dict"
    /\ \A p \in SensorPlaces : HasKey(SensorAt(p), "id")

Before(p, q) == p[1] < q[1] \/ (p[1] = q[1] /\ p[2] < q[2])

MatchingPlaces == {p \in SensorPlaces : GetItem(SensorAt(p), "id") = sensor_wanted}

----------------------------------------------------------------------------
(* Claims about the tables, under SpecShared *)

\* C29: after any calls of filter_pii on any trees, trees that hold an
\* object of the tables installed after an earlier call included, the
\* values of __pii_dicts__ and __pii_lists__ have the contents the class
\* body gave them (__pii_keys__ is a tuple, which nothing can write).
C29_TablesKeepContents ==
    /\ DOMAIN pii_store = ObjectNames
    /\ \A k \in pii_dicts_keys \cup pii_lists_keys :
          Contents(pii_store, Ref(<<k>>)) = pii_table(k)

\* C29 witness: the latest call walked the whole tree of the caller, which
\* holds the value of __pii_dicts__ under one key and the dict inside it
\* under another, so that the call wrote into that dict
C29_Witness ==
    /\ alias_calls >= 1
    /\ pii_returned.st = "ok"
    /\ pii_returned.val = pii_held
    /\ \E i, j \in DOMAIN pii_held.d :
          /\ pii_held.d[i].val = Ref(<<"sim_id">>)
          /\ pii_held.d[j].val = Ref(<<"sim_id", "sim_id">>)

----------------------------------------------------------------------------
(* Claims about the exporter, under SpecExportFair *)

\* --period is hourly or daily and --to is at least one period after --from
SplitsRange ==
    /\ arg_period \in {"hourly", "daily"}
    /\ to_datetime - from_datetime >=
          (IF arg_period = "hourly" THEN 3600 ELSE 24 * 3600)

\* One period less a second
WindowLength == (IF arg_period = "hourly" THEN 3600 ELSE 24 * 3600) - 1

\* The windows exported so far
WindowsAreWholePeriods ==
    SplitsRange =>
        /\ \A i \in DOMAIN exported :
              /\ exported[i][2] - exported[i][1] = WindowLength
              /\ exported[i][2] < to_datetime
        /\ \A i \in DOMAIN exported :
              i > 1 => exported[i][1] = exported[i - 1][2] + 1
        /\ exported # <<>> => exported[1][1] = from_datetime
        /\ pc \in {"done", "advance", "aborted"} => exported # <<>>

\* C30: in the hourly and daily modes, for every range of at least one
\* period, the splitting loop ends; each window exported is one period less
\* a second long, the next starts one second after the previous ends, the
\* first starts at --from, and none ends at or after --to.
C30_WholePeriodsAndTermination ==
    /\ []WindowsAreWholePeriods
    /\ (SplitsRange /\ pc = "main") ~> (pc \in {"done", "aborted"})

\* C30 witness: the loop ended after more than one window, on a range that
\* is not a whole number of periods
C30_Witness ==
    /\ SplitsRange
    /\ pc = "done"
    /\ Len(exported) >= 2
    /\ to_datetime - from_datetime = Len(exported) * (WindowLength + 1) + 1

====
